---- MODULE Spec2Model ----
(***************************************************************************)
(* Model of app/bt_manager.py (class BluetoothManager) and of the routes   *)
(* of app/server.py that call it.                                          *)
(*                                                                         *)
(* Text is modelled at the granularity the code inspects it:               *)
(*  - a device name and a hardware address are sequences of characters;    *)
(*  - a line of bluetoothctl session output is a sequence of word tokens   *)
(*    (keywords are matched as contiguous token runs, case-insensitively); *)
(*  - the output of an "info" query is a sequence of <<key, value>> lines, *)
(*    the empty sequence being the empty text "" of a failed query.        *)
(* Python's None and the empty string are both the empty sequence <<>>:    *)
(* the code only ever tests them with "if not x" / "x or default".         *)
(***************************************************************************)
EXTENDS Integers, Sequences, FiniteSets, TLC

\* ───── bounds of the model ─────────────────────────────────────────────
MaxTime == 25        \* the clock stops advancing here
TickLen == 5         \* seconds added by one Tick of the clock
MaxLines == 2        \* lines a session prints during one _read_until
MaxNameLen == 2      \* characters of a name in a discovery line
MaxScanIter == 2     \* select() rounds that fit in one scan duration
MaxListLines == 2    \* lines of a devices / paired-devices output

\* ───── program constants ──────────────────────────────────────────────
CacheWindow == 10    \* _get_connected_live: now - _last_check_time < 10
PollCount == 10      \* connect: for i in range(10)

\* ───── identities ──────────────────────────────────────────────────────
None == <<>>
\* no get_connected_device call has just returned
NoReturn == [called |-> FALSE, device |-> None, at |-> 0]
MacA == <<"A", "1">>
MacB == <<"1", "A">>
MACS == {MacA, MacB}
Unbekannt == <<"U", "n", "b", "e", "k", "a", "n", "n", "t">>
Alias(m) == IF m = MacA THEN <<"K", "i", "t">> ELSE <<"B", "o", "x">>

CONNS == {"c1", "c2"}          \* HTTP worker threads inside api_bt_connect
Startup == "a1"                \* the thread of startup_tasks
THREADS == CONNS \cup {Startup}
NoThread == "none"

\* ───── _clean_ansi and keyword matching ───────────────────────────────
Esc == "ESC[0m"

CleanAnsi(line) == SelectSeq(line, LAMBDA tok : tok # Esc)

LowerTok(tok) ==
  CASE tok = "Failed" -> "failed"
    [] tok = "Error" -> "error"
    [] tok = "Pairing" -> "pairing"
    [] tok = "Connection" -> "connection"
    [] tok = "Connected:" -> "connected:"
    [] tok = "AlreadyExists" -> "alreadyexists"
    [] tok = "AlreadyConnected" -> "alreadyconnected"
    [] tok = "Device" -> "device"
    [] OTHER -> tok

Lower(line) == [i \in DOMAIN line |-> LowerTok(line[i])]

\* Python "needle in hay" on texts: a contiguous run.
Contains(hay, needle) ==
  \E k \in 0..(Len(hay) - Len(needle)) :
    \A j \in 1..Len(needle) : hay[k + j] = needle[j]

PairKeywords ==
  << <<"Pairing", "successful">>, <<"Failed", "to", "pair">>,
     <<"org", "bluez", "Error">>, <<"not", "available">>,
     <<"AlreadyExists">>, <<"Connected:", "yes">> >>

ConnectKeywords ==
  << <<"Connection", "successful">>, <<"Connected:", "yes">>,
     <<"Failed", "to", "connect">>, <<"not", "available">>,
     <<"AlreadyConnected">>, <<"profile-unavailable">>, <<"br-connection">> >>

\* Lines bluetoothctl prints in a pairing session.
PairLines ==
  { <<"Attempting", "to", "pair">>,
    <<Esc, "Pairing", "successful">>,
    <<"Failed", "to", "pair", "org", "bluez", "Error", "AuthenticationFailed">>,
    <<"Failed", "to", "pair", "org", "bluez", "Error", "AlreadyExists">>,
    <<"org", "bluez", "Error", "NotReady">>,
    <<"Device", "not", "available">>,
    <<"Connected:", "yes">> }

\* Lines bluetoothctl prints in a connect session.
ConnectLines ==
  { <<"Attempting", "to", "connect">>,
    <<Esc, "Connection", "successful">>,
    <<"Connected:", "yes">>,
    <<"Failed", "to", "connect", "org", "bluez", "Error", "Failed">>,
    <<"Failed", "to", "connect", "org", "bluez", "Error", "Failed",
      "br-connection", "profile-unavailable">>,
    <<"org", "bluez", "Error", "AlreadyConnected">>,
    <<"br-connection", "page-timeout">>,
    <<"profile-unavailable">>,
    <<"Device", "not", "available">> }

\* the first keyword, in list order, that the line contains
FirstKeyword(line, keywords) ==
  LET hits == {k \in DOMAIN keywords : Contains(Lower(line), Lower(keywords[k]))}
  IN IF hits = {} THEN None
     ELSE keywords[CHOOSE k \in hits : \A h \in hits : k <= h]

\* one round of the loop of _read_until on a line that was read: the keyword
\* to return, or None to go on reading
ReadLine(line, keywords) ==
  LET line_clean == CleanAnsi(line)
  IN IF line_clean # <<>> THEN FirstKeyword(line_clean, keywords) ELSE None


\* ───── one-shot queries (_btctl) ──────────────────────────────────────
EmptyOutput == <<>>

\* text of "info <mac>" when bluetoothctl answers
InfoText(m, isLinked, isPaired) ==
  << <<"Name", Alias(m)>>, <<"Alias", Alias(m)>>,
     <<"Paired", IF isPaired THEN "yes" ELSE "no">>,
     <<"Connected", IF isLinked THEN "yes" ELSE "no">> >>

HasField(output, key, value) ==
  \E i \in DOMAIN output : output[i][1] = key /\ output[i][2] = value

IsConnectedOut(output) == HasField(output, "Connected", "yes")

PairedOut(output) == HasField(output, "Paired", "yes")

GetName(output) ==
  LET al == {i \in DOMAIN output : output[i][1] = "Alias"}
      nm == {i \in DOMAIN output : output[i][1] = "Name"}
      first(S) == CHOOSE i \in S : \A j \in S : i <= j
  IN IF al # {} THEN output[first(al)][2]
     ELSE IF nm # {} THEN output[first(nm)][2]
     ELSE Unbekannt

\* ───── state ───────────────────────────────────────────────────────────
VARIABLES
  connected_device,        \* self.connected_device (None or an address)
  connected_device_name,   \* self.connected_device_name
  last_check_time,         \* self._last_check_time
  config,                  \* content of bluetooth.json
  scanning,                \* self.scanning
  discovered_devices,      \* self._discovered_devices: address -> name (None: absent)
  lock,                    \* holder of self._lock, or NoThread
  link,                    \* addresses whose link is really up (the stack's truth)
  now,                     \* time.time()
  failed,                  \* the address of the connect call that returned
                           \* failure, while no operation has begun since
  response,                \* what api_bt_connect answered to the request that
                           \* returned last, while no operation has begun since
  returned,                \* what a get_connected_device call that ran with no
                           \* other operation in flight returned, and the time it
                           \* stored, while no operation has begun since
  cpc, cmac, cloc, ctrace, cresult,   \* connect(mac) calls, one per thread of THREADS
  spc, sloc, sres,         \* get_status() calls, one per thread of READERS
  gpc, gq, gres,           \* the get_connected_device() caller
  gat,                     \* the time.time() its running call stored (0: none)
  lpc, lloc, lres,         \* the get_devices() caller
  dpc, dmac,               \* the disconnect() / remove_device() caller
  dloc, dtrace, dres,      \* its call, the directives it issued, what it returned
  kpc, kres,               \* start_scan() calls, one per thread of CALLERS
  tpc, titer, tproc,       \* the _scan thread each call started
  tlast,                   \* what its last discovery line named
  pending,                 \* what its session has written and it has not read
  prev,                    \* what the last finished get_status call returned
  quiet                    \* no other operation has acted since the last
                           \* step of a get_status call that read the state

btvars == <<connected_device, connected_device_name, last_check_time, config>>
scanthreads == <<kpc, kres, tpc, titer, tproc, tlast, pending>>
scanvars == <<scanning, discovered_devices, scanthreads>>
envvars == <<link, now, failed, response, returned>>
cvars == <<cpc, cmac, cloc, ctrace, cresult>>
svars == <<spc, sloc, sres, prev>>
lvars == <<lpc, lloc, lres>>
gvars == <<gpc, gq, gres, gat, lvars>>
dvars == <<dpc, dmac, dloc, dtrace, dres>>

NoResult == [success |-> FALSE, message |-> "", name |-> None]
\* locals of a running call; alive: its session process has not ended.
\* Two fields record what the call observed, for the properties below:
\*   first_connected: the query of line 250 reported "Connected: yes"
\*   pair_end: how the wait of _do_pair ended ("" while there was none)
\*   nread: lines the running _read_until has read so far
\*   reverified: what the last query of lines 289 / 313 answered: "yes"
\*          for "Connected: yes", "no" for anything else ("": none made)
\*   heard: the specific error named by the line that ended the connect
\*          wait whose result connect_result holds ("": none, also when
\*          _do_connect returned through its except branch)
NoLocals == [already_paired |-> FALSE, kw |-> None, error |-> "", i |-> 0,
             attempt |-> 0, alive |-> FALSE, nread |-> 0,
             first_connected |-> FALSE, pair_end |-> "", heard |-> "",
             reverified |-> ""]

\* the call of t appends to its transport log
Log(t, events) == ctrace' = [ctrace EXCEPT ![t] = @ \o events]

\* what an "info" query can return for m right now
InfoOutputs(m) ==
  {EmptyOutput} \cup {InfoText(m, m \in link, p) : p \in BOOLEAN}

\* ───── _save_config / _set_connected ───────────────────────────────────
SavedConfig(dev, name) == [last_device |-> dev, last_device_name |-> name]

SetConnected(mac, name) ==
  /\ connected_device' = mac
  /\ connected_device_name' = (IF name = None THEN Unbekannt ELSE name)
  /\ last_check_time' = now
  /\ config' = SavedConfig(mac, IF name = None THEN Unbekannt ELSE name)

ClearConnected ==
  /\ connected_device' = None
  /\ connected_device_name' = None
  /\ config' = SavedConfig(None, None)

\* ───── connect(mac): lines 235-322 ─────────────────────────────────────
Result(ok, msg, nm) == [success |-> ok, message |-> msg, name |-> nm]

Goto(t, label) == cpc' = [cpc EXCEPT ![t] = label]

\* "return {...}" inside "with self._lock": the result is built, the lock
\* is released by ConnectReturn
Deliver(t, res) ==
  /\ cresult' = [cresult EXCEPT ![t] = res]
  /\ Goto(t, "return")

\* api_bt_connect, lines 179-184 of server.py: the JSON body, sent with the
\* status of a plain "return jsonify(...)"
NoResponse == [status |-> 0, connected |-> FALSE, mac |-> None, name |-> None,
               message |-> ""]

StatusOk == 200

Respond(mac, result) ==
  [status |-> StatusOk, connected |-> result.success, mac |-> mac,
   name |-> result.name, message |-> result.message]

\* api_bt_connect: result = bt.connect(mac), blocked at "with self._lock"
ConnectCall(t) ==
  /\ cpc[t] = "idle"
  /\ \E m \in MACS : cmac' = [cmac EXCEPT ![t] = m]
  /\ Goto(t, "lock")
  /\ UNCHANGED <<btvars, scanvars, envvars, svars, gvars, dvars, quiet, lock, cloc, ctrace, cresult>>

LockFree(t) == TRUE

LockGuard(t) == lock = NoThread

\* with self._lock:  (threading.Lock.__enter__)
Acquire(t) ==
  /\ cpc[t] = "lock"
  /\ LockGuard(t)
  /\ lock' = t
  /\ Goto(t, "power_on")
  /\ failed' = None /\ response' = NoResponse /\ returned' = NoReturn
  /\ UNCHANGED <<btvars, scanvars, link, now, svars, gvars, dvars, quiet, cmac, cloc, ctrace, cresult>>

\* self.power_on()
ConnectPowerOn(t) ==
  /\ cpc[t] = "power_on"
  /\ Log(t, <<"power">>)
  /\ Goto(t, "is_connected")
  /\ UNCHANGED <<btvars, scanvars, envvars, svars, gvars, dvars, quiet, lock, cmac, cloc, cresult>>

\* the check of line 250 made, its answer not acted on
CheckConnectedIgnored(t) ==
  /\ cpc[t] = "is_connected"
  /\ \E output \in InfoOutputs(cmac[t]) :
       cloc' = [cloc EXCEPT ![t].first_connected = IsConnectedOut(output)]
  /\ Goto(t, "info")
  /\ Log(t, <<"info">>)
  /\ UNCHANGED <<btvars, scanvars, envvars, svars, gvars, dvars, quiet, lock, cmac, cresult>>

\* if self._is_connected(mac):
CheckConnected(t) ==
  /\ cpc[t] = "is_connected"
  /\ \E output \in InfoOutputs(cmac[t]) :
       /\ Goto(t, IF IsConnectedOut(output) THEN "already" ELSE "info")
       /\ cloc' = [cloc EXCEPT ![t].first_connected = IsConnectedOut(output)]
  /\ Log(t, <<"info">>)
  /\ UNCHANGED <<btvars, scanvars, envvars, svars, gvars, dvars, quiet, lock, cmac, cresult>>

\* name = self._get_name(mac); self._set_connected(mac, name); return {...}
AlreadyConnected(t) ==
  /\ cpc[t] = "already"
  /\ \E output \in InfoOutputs(cmac[t]) :
       LET name == GetName(output)
       IN /\ SetConnected(cmac[t], name)
          /\ Deliver(t, Result(TRUE, "Bereits verbunden mit", name))
  /\ Log(t, <<"info">>)
  /\ quiet' = FALSE
  /\ UNCHANGED <<scanvars, envvars, svars, gvars, dvars, lock, cmac, cloc>>

\* info = self._btctl(f"info {mac}"); already_paired = "Paired: yes" in info
ConnectInfo(t) ==
  /\ cpc[t] = "info"
  /\ \E output \in InfoOutputs(cmac[t]) :
       cloc' = [cloc EXCEPT ![t].already_paired = PairedOut(output)]
  /\ Log(t, <<"info">>)
  /\ Goto(t, "trust")
  /\ UNCHANGED <<btvars, scanvars, envvars, svars, gvars, dvars, quiet, lock, cmac, cresult>>

\* self._btctl(f"trust {mac}"); if not already_paired: self._do_pair(mac)
Trust(t) ==
  /\ cpc[t] = "trust"
  /\ Log(t, <<"trust">>)
  /\ Goto(t, IF cloc[t].already_paired THEN "disconnect1" ELSE "pair_open")
  /\ cloc' = [cloc EXCEPT ![t].already_paired = FALSE]
  /\ UNCHANGED <<btvars, scanvars, envvars, svars, gvars, dvars, quiet, lock, cmac, cresult>>

\* the pair directive written first, before the agent and the discovery
PairFirst == <<"pair", "agent", "scan on", "scan off">>

PairDirectives == <<"agent", "scan on", "scan off", "pair">>

MsgPairFailed == "Pairing fehlgeschlagen - ist das Geraet im Pairing-Modus?"
MsgPairError == "Pair-Fehler"
MsgConnectError == "Connect-Fehler"
MsgProfile == "Audio-Profil nicht verfuegbar - PulseAudio neu starten"
MsgLinkLayer == "Bluetooth-Fehler: br-connection"
MsgGeneric == "Verbindung konnte nicht hergestellt werden"

\* A session process ends in one of three ways: it obeys "exit" within the
\* 5 s of proc.wait, it is killed after that wait timed out, or the except
\* branch kills it unless it has died by itself ("if proc and proc.poll()
\* is None: proc.kill()").  In each case it is not alive afterwards.
SessionLeftRunning(t, loc) == [loc EXCEPT ![t].kw = None, ![t].nread = 0]

SessionEnded(t, loc) ==
  [loc EXCEPT ![t].alive = FALSE, ![t].kw = None, ![t].nread = 0]

\* the exception leaves _do_pair and connect: nothing catches it
PairReraise(t) ==
  /\ cloc' = SessionEnded(t, cloc)
  /\ Goto(t, "raised")
  /\ UNCHANGED cresult

\* except Exception as e (lines 387-390) and connect, lines 271-276: the
\* session is killed if it still runs and the call returns "Pair-Fehler: e"
PairExcept(t) ==
  /\ cloc' = SessionEnded(t, cloc)
  /\ Deliver(t, Result(FALSE, MsgPairError, None))

\* except Exception as e (lines 438-442): _do_connect returns
\* {"error": "Connect-Fehler: e"} and connect goes on at line 288 / 312
ConnectExcept(t) ==
  /\ cloc' = [SessionEnded(t, cloc) EXCEPT ![t].error = MsgConnectError,
                                          ![t].heard = ""]
  /\ Goto(t, "verify")

\* _do_pair, lines 337-361: Popen, then the four writes; any of them may raise
PairOpen(t) ==
  /\ cpc[t] = "pair_open"
  /\ \/ \* Popen raises: proc is None
        /\ Deliver(t, Result(FALSE, MsgPairError, None))
        /\ UNCHANGED <<ctrace, cloc>>
     \/ \* write number k raises (the process is gone or the pipe broke)
        \E k \in DOMAIN PairDirectives :
          /\ Log(t, <<"open">> \o SubSeq(PairDirectives, 1, k - 1))
          /\ PairExcept(t)
     \/ /\ Log(t, <<"open">> \o PairDirectives)
        /\ cloc' = [cloc EXCEPT ![t].alive = TRUE]
        /\ Goto(t, "pair_wait")
        /\ UNCHANGED cresult
  /\ UNCHANGED <<btvars, scanvars, envvars, svars, gvars, dvars, quiet, lock, cmac>>

\* the keywords of the pairing wait by what they report (lines 365-370)
PairFailureKeywords ==
  { <<"Failed", "to", "pair">>, <<"org", "bluez", "Error">>, <<"not", "available">> }

PairEnd(kw) ==
  IF kw \in PairFailureKeywords THEN "failed"
  ELSE IF kw = <<"Connected:", "yes">> THEN "connected"
  ELSE "other"

\* lines 452-460 for a line read in the pairing wait: the keyword ends the
\* wait, any other line is one more round
PairTakeLine(t, line) ==
  LET kw == ReadLine(line, PairKeywords)
  IN IF kw # None
     THEN /\ cloc' = [cloc EXCEPT ![t].kw = kw, ![t].pair_end = PairEnd(kw)]
          /\ Goto(t, "pair_close")
     ELSE /\ cloc' = [cloc EXCEPT ![t].nread = @ + 1]
          /\ Goto(t, "pair_wait")

\* result = self._read_until(proc, [...], timeout_sec=20): each step is one
\* round of its loop.  select saw the start of a line and readline() waits
\* for its end; or the read raised; or a whole line was read; or the loop
\* ended (the time is up, or readline returned "" at the end of the output)
\* with no keyword
PairWait(t) ==
  /\ cpc[t] = "pair_wait"
  /\ \/ /\ cloc[t].nread < MaxLines
        /\ Goto(t, "pair_readline")
        /\ UNCHANGED <<cloc, cresult>>
     \/ PairExcept(t)
     \/ /\ cloc[t].nread < MaxLines
        /\ \E line \in PairLines : PairTakeLine(t, line)
        /\ UNCHANGED cresult
     \/ /\ cloc' = [cloc EXCEPT ![t].kw = None, ![t].pair_end = PairEnd(None)]
        /\ Goto(t, "pair_close")
        /\ UNCHANGED cresult
  /\ UNCHANGED <<btvars, scanvars, envvars, svars, gvars, dvars, quiet, lock, cmac, ctrace>>

\* only the "failed" needle looked for
PairFailedNarrow(kw) == kw # None /\ Contains(Lower(kw), <<"failed">>)

\* kw and any(x in kw.lower() for x in ["failed", "error", "not available"])
PairFailed(kw) ==
  /\ kw # None
  /\ \E x \in { <<"failed">>, <<"error">>, <<"not", "available">> } :
       Contains(Lower(kw), x)

\* _do_pair, lines 373-390, and connect, lines 271-276
PairClose(t) ==
  /\ cpc[t] = "pair_close"
  /\ \/ \* exit written; the process ends, or is killed after the 5 s wait
        /\ Log(t, <<"exit">>)
        /\ cloc' = SessionEnded(t, cloc)
        /\ IF PairFailed(cloc[t].kw)
           THEN Deliver(t, Result(FALSE, MsgPairFailed, None))
           ELSE Goto(t, "disconnect1") /\ UNCHANGED cresult
     \/ \* writing exit raises
        /\ PairExcept(t)
        /\ UNCHANGED ctrace
  /\ UNCHANGED <<btvars, scanvars, envvars, svars, gvars, dvars, quiet, lock, cmac>>

\* self._btctl(f"disconnect {mac}", timeout=5)   (line 280)
Disconnect1(t) ==
  /\ cpc[t] = "disconnect1"
  /\ Log(t, <<"disconnect">>)
  /\ cloc' = [cloc EXCEPT ![t].attempt = 1]
  /\ Goto(t, "connect_open")
  /\ UNCHANGED <<btvars, scanvars, envvars, svars, gvars, dvars, quiet, lock, cmac, cresult>>

\* _do_connect, lines 394-405: Popen and the connect write; either may raise
ConnectOpen(t) ==
  /\ cpc[t] = "connect_open"
  /\ \/ \* Popen raises: proc is None
        /\ cloc' = [cloc EXCEPT ![t].error = MsgConnectError]
        /\ Goto(t, "verify")
        /\ UNCHANGED ctrace
     \/ \* the connect write raises
        /\ Log(t, <<"open">>)
        /\ ConnectExcept(t)
     \/ /\ Log(t, <<"open", "connect">>)
        /\ cloc' = [cloc EXCEPT ![t].alive = TRUE]
        /\ Goto(t, "connect_wait")
  /\ UNCHANGED <<btvars, scanvars, envvars, svars, gvars, dvars, quiet, lock, cmac, cresult>>

\* the specific error a line of the connect session reports: the
\* profile-unavailable report, else the link-layer error, else none
LineReport(line) ==
  IF Contains(Lower(CleanAnsi(line)), <<"profile-unavailable">>) THEN MsgProfile
  ELSE IF Contains(Lower(CleanAnsi(line)), <<"br-connection">>) THEN MsgLinkLayer
  ELSE ""

\* lines 452-460 for a line read in the connect wait
ConnectTakeLine(t, line) ==
  LET kw == ReadLine(line, ConnectKeywords)
  IN IF kw # None
     THEN /\ cloc' = [cloc EXCEPT ![t].kw = kw, ![t].heard = LineReport(line)]
          /\ Goto(t, "connect_close")
     ELSE cloc' = [cloc EXCEPT ![t].nread = @ + 1] /\ Goto(t, "connect_wait")

\* result = self._read_until(proc, [...], timeout_sec=15)
ConnectWait(t) ==
  /\ cpc[t] = "connect_wait"
  /\ \/ /\ cloc[t].nread < MaxLines
        /\ Goto(t, "connect_readline")
        /\ UNCHANGED cloc
     \/ ConnectExcept(t)
     \/ /\ cloc[t].nread < MaxLines
        /\ \E line \in ConnectLines : ConnectTakeLine(t, line)
     \/ /\ cloc' = [cloc EXCEPT ![t].kw = None]
        /\ Goto(t, "connect_close")
  /\ UNCHANGED <<btvars, scanvars, envvars, svars, gvars, dvars, quiet, lock, cmac, ctrace, cresult>>

\* line = proc.stdout.readline() (line 451) of a round whose select saw the
\* start of a line: it returns when the session has written the end of the
\* line, and the round goes on with that line
SessionCompletesLine(t) ==
  /\ cpc[t] \in {"pair_readline", "connect_readline"}
  /\ IF cpc[t] = "pair_readline"
     THEN \E line \in PairLines : PairTakeLine(t, line)
     ELSE \E line \in ConnectLines : ConnectTakeLine(t, line)
  /\ UNCHANGED <<btvars, scanvars, envvars, svars, gvars, dvars, quiet, lock, cmac,
                 ctrace, cresult>>

\* _do_connect, lines 424-436: "" stands for {"success": True}
ConnectOutcome(kw) ==
  IF kw # None /\ \E x \in { <<"successful">>, <<"connected:", "yes">>,
                            <<"alreadyconnected">> } : Contains(Lower(kw), x)
  THEN ""
  ELSE IF kw # None /\ Contains(Lower(kw), <<"profile-unavailable">>) THEN MsgProfile
  ELSE IF kw # None /\ Contains(Lower(kw), <<"br-connection">>) THEN MsgLinkLayer
  ELSE MsgGeneric

\* _do_connect, lines 417-442, and connect, lines 284-285 / 309-310
ConnectClose(t) ==
  /\ cpc[t] = "connect_close"
  /\ \/ \* exit written; the process ends, or is killed after the 5 s wait
        /\ Log(t, <<"exit">>)
        /\ cloc' = [SessionEnded(t, cloc) EXCEPT ![t].error = ConnectOutcome(cloc[t].kw)]
        /\ Goto(t, IF ConnectOutcome(cloc[t].kw) = "" THEN "finalize" ELSE "verify")
     \/ \* writing exit raises
        /\ ConnectExcept(t)
        /\ UNCHANGED ctrace
  /\ UNCHANGED <<btvars, scanvars, envvars, svars, gvars, dvars, quiet, lock, cmac, cresult>>

\* the second attempt gives up on the word of its session, without a query
VerifyFirstOnly(t) ==
  /\ cpc[t] = "verify"
  /\ IF cloc[t].attempt = 1
     THEN /\ Log(t, <<"info">>)
          /\ \E output \in InfoOutputs(cmac[t]) :
               IF IsConnectedOut(output)
               THEN /\ Goto(t, "finalize")
                    /\ cloc' = [cloc EXCEPT ![t].reverified = "yes"]
                    /\ UNCHANGED cresult
               ELSE /\ Goto(t, "disconnect2")
                    /\ cloc' = [cloc EXCEPT ![t].error = "", ![t].heard = "",
                                            ![t].reverified = "no"]
                    /\ UNCHANGED cresult
     ELSE /\ Deliver(t, Result(FALSE, cloc[t].error, None))
          /\ UNCHANGED <<cloc, ctrace>>
  /\ UNCHANGED <<btvars, scanvars, envvars, svars, gvars, dvars, quiet, lock, cmac>>

\* time.sleep(3); if self._is_connected(mac): ...   (lines 288-290, 312-322)
Verify(t) ==
  /\ cpc[t] = "verify"
  /\ Log(t, <<"info">>)
  /\ \E output \in InfoOutputs(cmac[t]) :
       IF IsConnectedOut(output)
       THEN /\ Goto(t, "finalize")
            /\ cloc' = [cloc EXCEPT ![t].reverified = "yes"]
            /\ UNCHANGED cresult
       ELSE IF cloc[t].attempt = 1
            THEN \* connect_result of attempt 1 is not read again (line 308 rebinds it)
                 /\ Goto(t, "disconnect2")
                 /\ cloc' = [cloc EXCEPT ![t].error = "", ![t].heard = "",
                                         ![t].reverified = "no"]
                 /\ UNCHANGED cresult
            ELSE /\ Deliver(t, Result(FALSE, cloc[t].error, None))
                 /\ cloc' = [cloc EXCEPT ![t].reverified = "no"]
  /\ UNCHANGED <<btvars, scanvars, envvars, svars, gvars, dvars, quiet, lock, cmac>>

\* the session's own verdict trusted over the verification query
FinalizeTrustingSession(t) ==
  /\ cpc[t] = "finalize"
  /\ Log(t, <<"info">>)
  /\ quiet' = FALSE
  /\ IF cloc[t].error # ""
     THEN Deliver(t, Result(FALSE, cloc[t].error, None)) /\ UNCHANGED btvars
     ELSE SetConnected(cmac[t], Unbekannt)
          /\ Deliver(t, Result(TRUE, "Verbunden mit", Unbekannt))
  /\ UNCHANGED <<scanvars, envvars, svars, gvars, dvars, lock, cmac, cloc>>

\* _finalize_connect, lines 324-333
FinalizeConnect(t) ==
  /\ cpc[t] = "finalize"
  /\ \E output \in InfoOutputs(cmac[t]) :
       LET name == GetName(output)
       IN /\ SetConnected(cmac[t], name)
          /\ Deliver(t, Result(TRUE, "Verbunden mit", name))
  /\ Log(t, <<"info">>)
  /\ quiet' = FALSE
  /\ UNCHANGED <<scanvars, envvars, svars, gvars, dvars, lock, cmac, cloc>>

\* the second tier entered without the disconnect directive
Disconnect2Skipped(t) ==
  /\ cpc[t] = "disconnect2"
  /\ Goto(t, "restart")
  /\ UNCHANGED <<btvars, scanvars, envvars, svars, gvars, dvars, quiet, lock, cmac, cloc,
                 ctrace, cresult>>

\* self._btctl(f"disconnect {mac}", timeout=5)   (line 294)
Disconnect2(t) ==
  /\ cpc[t] = "disconnect2"
  /\ Log(t, <<"disconnect">>)
  /\ Goto(t, "restart")
  /\ UNCHANGED <<btvars, scanvars, envvars, svars, gvars, dvars, quiet, lock, cmac, cloc, cresult>>

\* _run_cmd("systemctl --user restart pulseaudio", timeout=10)
RestartAudio(t) ==
  /\ cpc[t] = "restart"
  /\ Log(t, <<"restart">>)
  /\ cloc' = [cloc EXCEPT ![t].i = 0]
  /\ Goto(t, "poll")
  /\ UNCHANGED <<btvars, scanvars, envvars, svars, gvars, dvars, quiet, lock, cmac, cresult>>

\* the polls exhausted, the second tier starts over
PollRetry(t) ==
  /\ cpc[t] = "poll"
  /\ Log(t, <<"info">>)
  /\ \E output \in InfoOutputs(cmac[t]) :
       IF IsConnectedOut(output)
       THEN Goto(t, "finalize") /\ UNCHANGED cloc
       ELSE IF cloc[t].i + 1 < PollCount
            THEN cloc' = [cloc EXCEPT ![t].i = @ + 1] /\ UNCHANGED cpc
            ELSE /\ cloc' = [cloc EXCEPT ![t].i = @ + 1]
                 /\ Goto(t, "disconnect2")
  /\ UNCHANGED <<btvars, scanvars, envvars, svars, gvars, dvars, quiet, lock, cmac, cresult>>

\* for i in range(10): time.sleep(2); if self._is_connected(mac): ...
Poll(t) ==
  /\ cpc[t] = "poll"
  /\ Log(t, <<"info">>)
  /\ \E output \in InfoOutputs(cmac[t]) :
       IF IsConnectedOut(output)
       THEN Goto(t, "finalize") /\ UNCHANGED cloc
       ELSE IF cloc[t].i + 1 < PollCount
            THEN cloc' = [cloc EXCEPT ![t].i = @ + 1] /\ UNCHANGED cpc
            ELSE /\ cloc' = [cloc EXCEPT ![t].i = @ + 1, ![t].attempt = 2]
                 /\ Goto(t, "connect_open")
  /\ UNCHANGED <<btvars, scanvars, envvars, svars, gvars, dvars, quiet, lock, cmac, cresult>>

\* leaving "with self._lock" with the result; the call's locals are gone
ConnectReturn(t) ==
  /\ cpc[t] = "return"
  /\ lock' = NoThread
  /\ Goto(t, "idle")
  /\ cloc' = [cloc EXCEPT ![t] = NoLocals]
  /\ ctrace' = [ctrace EXCEPT ![t] = <<>>]
  /\ cresult' = [cresult EXCEPT ![t] = NoResult]
  /\ failed' = (IF cresult[t].success THEN None ELSE cmac[t])
  /\ response' = Respond(cmac[t], cresult[t])
  /\ returned' = NoReturn
  /\ UNCHANGED <<btvars, scanvars, link, now, svars, gvars, dvars, quiet, cmac>>

\* the body of connect, from "with self._lock" to its return statement
Workflow(t) ==
  \/ Acquire(t) \/ ConnectPowerOn(t) \/ CheckConnected(t)
  \/ AlreadyConnected(t) \/ ConnectInfo(t) \/ Trust(t)
  \/ PairOpen(t) \/ PairWait(t) \/ PairClose(t)
  \/ Disconnect1(t) \/ ConnectOpen(t) \/ ConnectWait(t) \/ ConnectClose(t)
  \/ Verify(t) \/ FinalizeConnect(t)
  \/ Disconnect2(t) \/ RestartAudio(t) \/ Poll(t)

ConnectStep(t) == ConnectCall(t) \/ Workflow(t) \/ ConnectReturn(t)

\* ───── auto_reconnect, called by startup_tasks: lines 520-544 ──────────
\* _detect_connected_device: the first device of the "devices Connected"
\* output whose info query says "Connected: yes" is recorded with the name
\* a second info query gives; none is when no line passes (or the output is
\* empty, or something raised)
DetectConnected ==
  /\ cpc[Startup] = "boot"
  /\ \/ UNCHANGED btvars
     \/ \E m \in MACS : \E seen \in InfoOutputs(m) :
          /\ IsConnectedOut(seen)
          /\ \E output \in InfoOutputs(m) : SetConnected(m, GetName(output))
  /\ Goto(Startup, "decide")
  /\ quiet' = FALSE
  /\ failed' = None /\ response' = NoResponse /\ returned' = NoReturn
  /\ UNCHANGED <<scanvars, link, now, svars, gvars, dvars, lock, cmac, cloc, ctrace,
                 cresult>>

\* lines 524-528: connect(self.connected_device) if there is one, else False
AutoReconnectCall ==
  /\ cpc[Startup] = "decide"
  /\ IF connected_device # None
     THEN /\ cmac' = [cmac EXCEPT ![Startup] = connected_device]
          /\ Goto(Startup, "lock")
     ELSE /\ Goto(Startup, "done")
          /\ UNCHANGED cmac
  /\ UNCHANGED <<btvars, scanvars, envvars, svars, gvars, dvars, quiet, lock, cloc,
                 ctrace, cresult>>

\* return result.get("success", False): the lock is released, and of the
\* result the startup thread keeps the flag
AutoReconnectReturn ==
  /\ cpc[Startup] = "return"
  /\ lock' = NoThread
  /\ Goto(Startup, "done")
  /\ cloc' = [cloc EXCEPT ![Startup] = NoLocals]
  /\ ctrace' = [ctrace EXCEPT ![Startup] = <<>>]
  /\ cresult' = [cresult EXCEPT ![Startup] =
                   [NoResult EXCEPT !.success = cresult[Startup].success]]
  /\ failed' = (IF cresult[Startup].success THEN None ELSE cmac[Startup])
  /\ response' = NoResponse /\ returned' = NoReturn
  /\ UNCHANGED <<btvars, scanvars, link, now, svars, gvars, dvars, quiet, cmac>>

AutoReconnectStep ==
  \/ DetectConnected
  \/ AutoReconnectCall
  \/ Workflow(Startup)
  \/ AutoReconnectReturn

\* ───── get_status / _get_connected_live: lines 153-174, 546-554 ───────
READERS == {"s1"}        \* threads polling the status route

NoStatus == [scanning |-> FALSE, connected |-> FALSE, connected_mac |-> None,
             connected_name |-> None]

\* locals of a running get_status call, and what it observed:
\*   t0, stamp: the time and self._last_check_time when it started
\*   recorded: a device was recorded in Connection State when it started
\*   queried, q: it issued an info query, for address q
\*   link_up: the link of the device was up when it queried (when it
\*            started, for a call that issued no query)
\*   answered: the query produced output;  yes: "Connected: yes" was in it
\*   quiet0: no other operation acted between the previous call's answer
\*           and the start of this call;  alone: none acted during this call
\*   after: the address of a connect call that returned failure just
\*          before this call began (None: there was none)
\*   follows: what the get_connected_device call returned that ended just
\*            before this call began, and the time it stored (NoReturn:
\*            there was none)
NoStatusLocals == [t0 |-> 0, stamp |-> 0, recorded |-> FALSE, queried |-> FALSE,
                   q |-> None, link_up |-> FALSE, answered |-> FALSE,
                   yes |-> FALSE, quiet0 |-> FALSE, alone |-> FALSE,
                   after |-> None, follows |-> NoReturn]

\* prev.device: the device the last call reported or queried (kept by a call
\* that found none recorded)
\* prev.answered: the last query a call issued produced output
NoPrev == [valid |-> FALSE, connected |-> FALSE, window |-> 0, device |-> None,
           answered |-> TRUE]

\* the dict of lines 549-554 for the connected_mac the check returned
Status(connected_mac, name) ==
  [scanning |-> scanning,
   connected |-> connected_mac # None,
   connected_mac |-> connected_mac,
   connected_name |-> IF connected_mac # None THEN name ELSE None]

\* the cached answer is never used
CacheFreshNever(t) == FALSE

\* now - self._last_check_time < 10
CacheFresh(t) == t - last_check_time < CacheWindow

\* lines 159-166: no device, or the cached answer, or the start of a check
GetLiveStart(r) ==
  /\ spc[r] = "idle"
  /\ sloc' = [sloc EXCEPT ![r] =
       [NoStatusLocals EXCEPT !.t0 = now, !.stamp = last_check_time,
                              !.recorded = connected_device # None,
                              !.link_up = prev.device \in link,
                              !.quiet0 = quiet, !.alone = TRUE,
                              !.after = failed, !.follows = returned]]
  /\ IF connected_device = None
     THEN /\ sres' = [sres EXCEPT ![r] = Status(None, None)]
          /\ spc' = [spc EXCEPT ![r] = "return"]
          /\ UNCHANGED btvars
     ELSE IF CacheFresh(now)
     THEN /\ sres' = [sres EXCEPT ![r] =
                        Status(connected_device, connected_device_name)]
          /\ spc' = [spc EXCEPT ![r] = "return"]
          /\ UNCHANGED btvars
     ELSE /\ last_check_time' = now
          /\ spc' = [spc EXCEPT ![r] = "query"]
          /\ UNCHANGED <<connected_device, connected_device_name, config, sres>>
  /\ quiet' = TRUE
  /\ failed' = None /\ response' = NoResponse /\ returned' = NoReturn
  /\ UNCHANGED <<scanvars, lock, link, now, cvars, gvars, dvars, prev>>

\* the info query of _is_connected for address dev (None: the state was
\* cleared meanwhile and the query names no device)
QueryOutputs(dev) == IF dev = None THEN {EmptyOutput} ELSE InfoOutputs(dev)

\* line 167: self._is_connected(self.connected_device)
GetLiveQuery(r) ==
  /\ spc[r] = "query"
  /\ \E output \in QueryOutputs(connected_device) :
       sloc' = [sloc EXCEPT ![r].queried = TRUE,
                            ![r].q = connected_device,
                            ![r].link_up = connected_device \in link,
                            ![r].answered = (output # EmptyOutput),
                            ![r].yes = IsConnectedOut(output)]
  /\ spc' = [spc EXCEPT ![r] = "verify"]
  /\ UNCHANGED <<btvars, scanvars, lock, envvars, cvars, sres, gvars, dvars,
                 prev, quiet>>

\* the answer of the query not acted on
LiveAnswerIgnored(r) == TRUE

\* what the if of line 167 tests
LiveAnswer(r) == sloc[r].yes

\* lines 167-174: on "yes" the device is read again for the return value,
\* otherwise Connection State is cleared and saved
GetLiveVerify(r) ==
  /\ spc[r] = "verify"
  /\ IF LiveAnswer(r)
     THEN /\ UNCHANGED btvars
          /\ sres' = [sres EXCEPT ![r] =
                        Status(connected_device, connected_device_name)]
     ELSE /\ ClearConnected
          /\ UNCHANGED last_check_time
          /\ sres' = [sres EXCEPT ![r] = Status(None, None)]
  /\ sloc' = [sloc EXCEPT ![r].alone = quiet]
  /\ spc' = [spc EXCEPT ![r] = "return"]
  /\ quiet' = TRUE
  /\ UNCHANGED <<scanvars, lock, envvars, cvars, gvars, dvars, prev>>

\* get_status returns its dict to the route
StatusReturn(r) ==
  /\ spc[r] = "return"
  /\ prev' = [valid |-> TRUE, connected |-> sres[r].connected,
              window |-> last_check_time,
              device |-> IF sres[r].connected THEN sres[r].connected_mac
                         ELSE IF sloc[r].queried THEN sloc[r].q
                         ELSE prev.device,
              answered |-> IF sloc[r].queried THEN sloc[r].answered
                           ELSE prev.answered]
  /\ spc' = [spc EXCEPT ![r] = "idle"]
  /\ sloc' = [sloc EXCEPT ![r] = NoStatusLocals]
  /\ sres' = [sres EXCEPT ![r] = NoStatus]
  /\ UNCHANGED <<btvars, scanvars, lock, envvars, cvars, gvars, dvars, quiet>>

StatusStep(r) ==
  \/ GetLiveStart(r)
  \/ GetLiveQuery(r)
  \/ GetLiveVerify(r)
  \/ StatusReturn(r)

\* ───── one operation after the other ──────────────────────────────────
\* the operations in flight: the startup thread until it is through, a call
\* between its first step and its return, a scan until its thread has ended
Running(op) ==
  CASE op = "startup" -> cpc[Startup] # "done"
    [] op = "connect" -> cpc["c1"] # "idle"
    [] op = "status" -> spc["s1"] # "idle"
    [] op = "check" -> gpc # "idle"
    [] op = "disconnect" -> dpc # "idle"
    [] op = "list" -> lpc # "idle"
    [] op = "scan" -> kpc["k1"] # "idle" \/ tpc["k1"] # "none"

InFlight ==
  {op \in {"startup", "connect", "status", "check", "disconnect", "list", "scan"} :
     Running(op)}

\* no operation but op is in flight
Only(op) == InFlight \subseteq {op}

\* ───── get_connected_device: lines 504-518 ─────────────────────────────
\* gq: what the query of the running call answered
GcdStart ==
  /\ gpc = "idle"
  /\ IF connected_device = None
     THEN gpc' = "return" /\ gres' = None
     ELSE gpc' = "query" /\ gres' = gres
  /\ gq' = FALSE
  /\ gat' = 0
  /\ quiet' = FALSE
  /\ failed' = None /\ response' = NoResponse /\ returned' = NoReturn
  /\ UNCHANGED <<btvars, scanvars, lock, link, now, cvars, svars, lvars, dvars>>

GcdQuery ==
  /\ gpc = "query"
  /\ \E output \in QueryOutputs(connected_device) :
       gq' = IsConnectedOut(output)
  /\ gpc' = "verify"
  /\ quiet' = FALSE
  /\ UNCHANGED <<btvars, scanvars, lock, envvars, cvars, svars, gres, gat, lvars, dvars>>

\* the link is confirmed and no time is stored
StampSkipped == gat' = now /\ UNCHANGED last_check_time

\* line 511: self._last_check_time = time.time()
StampCheck == gat' = now /\ last_check_time' = now

GcdVerify ==
  /\ gpc = "verify"
  /\ IF gq
     THEN /\ StampCheck
          /\ gres' = connected_device
          /\ UNCHANGED <<connected_device, connected_device_name, config>>
     ELSE /\ ClearConnected
          /\ gres' = None
          /\ UNCHANGED <<last_check_time, gat>>
  /\ gpc' = "return"
  /\ gq' = FALSE
  /\ quiet' = FALSE
  /\ UNCHANGED <<scanvars, lock, envvars, cvars, svars, lvars, dvars>>

GcdReturn ==
  /\ gpc = "return"
  /\ gpc' = "idle"
  /\ gres' = None
  /\ gat' = 0
  /\ returned' = IF InFlight \subseteq {"check"}
                  THEN [called |-> TRUE, device |-> gres, at |-> gat]
                  ELSE NoReturn
  /\ quiet' = FALSE
  /\ UNCHANGED <<btvars, scanvars, lock, link, now, failed, response, cvars, svars, gq, lvars, dvars>>

GcdStep == GcdStart \/ GcdQuery \/ GcdVerify \/ GcdReturn

\* ───── disconnect(mac) and remove_device(mac): lines 472-500 ───────────
\* Connection State cleared whatever the address is
ClearAlways(mac) == ClearConnected

\* lines 479-484 and 494-497
ClearIfCurrent(mac) ==
  IF connected_device = mac
  THEN ClearConnected
  ELSE UNCHANGED <<connected_device, connected_device_name, config>>

\* the call of the running disconnect / remove_device:
\*   op: which of the two;  arg: the address it was given (None: none)
\*   current: the device recorded when its comparison of line 481 / 494
\*            was made (None before that)
\*   found: the address was in the discovered map when line 500 popped it
\*   saving: the dictionary _save_config has built and not yet written
NoCall == [op |-> "", arg |-> None, current |-> None, found |-> FALSE,
           saving |-> None]

\* mac = mac or self.connected_device; nothing to disconnect: return False
DisconnectCall(mac) ==
  /\ dpc = "idle"
  /\ dloc' = [NoCall EXCEPT !.op = "disconnect", !.arg = mac]
  /\ dtrace' = <<>>
  /\ LET target == IF mac # None THEN mac ELSE connected_device
     IN IF target = None
        THEN dpc' = "return" /\ dmac' = None /\ dres' = "false"
        ELSE dpc' = "disconnect" /\ dmac' = target /\ dres' = "none"
  /\ quiet' = FALSE
  /\ failed' = None /\ response' = NoResponse /\ returned' = NoReturn
  /\ UNCHANGED <<btvars, scanvars, lock, link, now, cvars, svars, gvars>>

\* the disconnect directive has run: lines 479-486
DisconnectFinish ==
  /\ dpc = "disconnect"
  /\ dtrace' = Append(dtrace, "disconnect")
  /\ dloc' = [dloc EXCEPT !.current = connected_device]
  /\ ClearIfCurrent(dmac)
  /\ dpc' = "return" /\ dres' = "true"
  /\ quiet' = FALSE
  /\ UNCHANGED <<last_check_time, scanvars, lock, envvars, cvars, svars, gvars, dmac>>

\* remove_device: the disconnect directive and the sleep of lines 491-492
RemoveCall(mac) ==
  /\ dpc = "idle"
  /\ dpc' = "remove" /\ dmac' = mac
  /\ dloc' = [NoCall EXCEPT !.op = "remove", !.arg = mac]
  /\ dtrace' = <<"disconnect">>
  /\ dres' = "none"
  /\ quiet' = FALSE
  /\ failed' = None /\ response' = NoResponse /\ returned' = NoReturn
  /\ UNCHANGED <<btvars, scanvars, lock, link, now, cvars, svars, gvars>>

\* the entry of the discovered map is never dropped
KeepDiscovered(mac) == UNCHANGED discovered_devices

\* self._discovered_devices.pop(mac, None)
PopDiscovered(mac) ==
  discovered_devices' = [discovered_devices EXCEPT ![mac] = None]

\* the remove directive has run: lines 493-501
RemoveFinish ==
  /\ dpc = "remove"
  /\ dtrace' = Append(dtrace, "remove")
  /\ dloc' = [dloc EXCEPT !.current = connected_device,
                          !.found = (discovered_devices[dmac] # None)]
  /\ ClearIfCurrent(dmac)
  /\ PopDiscovered(dmac)
  /\ dpc' = "return" /\ dres' = "true"
  /\ quiet' = FALSE
  /\ UNCHANGED <<last_check_time, scanning, scanthreads, lock, envvars, cvars,
                 svars, gvars, dmac>>

\* the route has the return value; the call is over
DisconnectReturn ==
  /\ dpc = "return"
  /\ dpc' = "idle" /\ dmac' = None
  /\ dloc' = NoCall /\ dtrace' = <<>> /\ dres' = "none"
  /\ quiet' = FALSE
  /\ UNCHANGED <<btvars, scanvars, lock, envvars, cvars, svars, gvars>>

\* ───── disconnect, statement by statement ──────────────────────────────
\* disconnect takes no lock, so another thread can run between its
\* statements.  DisconnectFinish is lines 479-486 run without interruption;
\* the three actions below are the same lines one group at a time, for the
\* specification in which a connect call runs meanwhile.

\* lines 479-483: the directive, the comparison, the two assignments
DisconnectCompare ==
  /\ dpc = "disconnect"
  /\ dtrace' = Append(dtrace, "disconnect")
  /\ dloc' = [dloc EXCEPT !.current = connected_device]
  /\ IF connected_device = dmac
     THEN /\ connected_device' = None
          /\ connected_device_name' = None
          /\ dpc' = "dump" /\ dres' = "none"
     ELSE /\ UNCHANGED <<connected_device, connected_device_name>>
          /\ dpc' = "return" /\ dres' = "true"
  /\ quiet' = FALSE
  /\ UNCHANGED <<last_check_time, config, scanvars, lock, envvars, cvars,
                 svars, gvars, dmac>>

\* lines 561-565: the file is open; the dictionary is built from the fields
SaveDump ==
  /\ dpc = "dump"
  /\ dloc' = [dloc EXCEPT
               !.saving = SavedConfig(connected_device, connected_device_name)]
  /\ dpc' = "write"
  /\ quiet' = FALSE
  /\ UNCHANGED <<btvars, scanvars, lock, envvars, cvars, svars, gvars,
                 dmac, dtrace, dres>>

\* json.dump and the end of the with block: the dictionary reaches the file
SaveWrite ==
  /\ dpc = "write"
  /\ config' = dloc.saving
  /\ dpc' = "return" /\ dres' = "true"
  /\ quiet' = FALSE
  /\ UNCHANGED <<connected_device, connected_device_name, last_check_time,
                 scanvars, lock, envvars, cvars, svars, gvars,
                 dmac, dloc, dtrace>>

DisconnectStep ==
  \/ \E mac \in MACS \cup {None} : DisconnectCall(mac)
  \/ DisconnectFinish
  \/ \E mac \in MACS : RemoveCall(mac)
  \/ RemoveFinish
  \/ DisconnectReturn

\* ───── start_scan and its _scan thread: lines 178-231 ─────────────────
CALLERS == {"k1", "k2"}        \* HTTP worker threads inside api_bt_scan

\* characters a discovery line is written with in this model
NameChars == {"A", "1", "a", "-", " "}

\* the texts of at most n characters
Texts(n) == UNION {[1..k -> NameChars] : k \in 0..n}

\* a line of the scan session: its first word, the address after it, and the
\* text that follows the address and one blank
ScanLines ==
  [word : {"Device", "Discovery"}, addr : MACS, text : Texts(MaxNameLen)]

\* those of them with a name of one character
ShortLines == {line \in ScanLines : Len(line.text) <= 1}

\* those of them about one device
LinesOf(m) == {line \in ScanLines : line.addr = m}

Whitespace == {" "}

RECURSIVE LStrip(_)
LStrip(text) ==
  IF text # <<>> /\ Head(text) \in Whitespace THEN LStrip(Tail(text)) ELSE text

RECURSIVE RStrip(_)
RStrip(text) ==
  IF text # <<>> /\ text[Len(text)] \in Whitespace
  THEN RStrip(SubSeq(text, 1, Len(text) - 1)) ELSE text

\* str.strip()
Strip(text) == LStrip(RStrip(text))

\* re.search(r'Device\s+([0-9A-F:]{17})\s+(.+)', line): group 2 needs one
\* character after the blank, and strip() leaves of it what Strip leaves of
\* the text
DeviceMatch(line) == line.word = "Device" /\ line.text # <<>>

UpperHex == {"0", "1", "2", "3", "4", "5", "6", "7", "8", "9",
             "A", "B", "C", "D", "E", "F"}

\* re.match(r'^[0-9A-F:-]+$', name)
AddressLike(name) ==
  name # <<>> /\ \A i \in DOMAIN name : name[i] \in UpperHex \cup {":", "-"}

\* every named device is kept
KeepAnyName(mac, name) == name # <<>>

\* line 211: name and name != mac and not re.match(...)
KeepName(mac, name) == name # <<>> /\ name # mac /\ ~AddressLike(name)

NoLast == [addr |-> None, name |-> None]

\* a start_scan call refuses when it reads scanning as set: line 180;
\* a caller has one thread at a time in this model
ScanCheck(k) ==
  /\ kpc[k] = "idle"
  /\ scanning \/ tpc[k] = "none"
  /\ IF scanning
     THEN kres' = [kres EXCEPT ![k] = "false"] /\ UNCHANGED kpc
     ELSE kres' = [kres EXCEPT ![k] = "none"]
          /\ kpc' = [kpc EXCEPT ![k] = "set"]
  /\ failed' = None /\ response' = NoResponse /\ returned' = NoReturn
  /\ UNCHANGED <<btvars, scanning, discovered_devices, tpc, titer, tproc, tlast,
                 pending, lock, link, now, cvars, svars, gvars, dvars, quiet>>

\* line 183
ScanSet(k) ==
  /\ kpc[k] = "set"
  /\ scanning' = TRUE
  /\ kpc' = [kpc EXCEPT ![k] = "clear"]
  /\ UNCHANGED <<btvars, discovered_devices, kres, tpc, titer, tproc, tlast,
                 pending, lock, envvars, cvars, svars, gvars, dvars, quiet>>

\* lines 184-185: the map is emptied, the adapter powered on
ScanClear(k) ==
  /\ kpc[k] = "clear"
  /\ discovered_devices' = [m \in MACS |-> None]
  /\ kpc' = [kpc EXCEPT ![k] = "launch"]
  /\ UNCHANGED <<btvars, scanning, kres, tpc, titer, tproc, tlast, pending,
                 lock, envvars, cvars, svars, gvars, dvars, quiet>>

\* lines 230-231: the thread is started and the call returns True
ScanLaunch(k) ==
  /\ kpc[k] = "launch"
  /\ tpc' = [tpc EXCEPT ![k] = "spawn"]
  /\ titer' = [titer EXCEPT ![k] = 0]
  /\ kres' = [kres EXCEPT ![k] = "true"]
  /\ kpc' = [kpc EXCEPT ![k] = "idle"]
  /\ UNCHANGED <<btvars, scanning, discovered_devices, tproc, tlast, pending,
                 lock, envvars, cvars, svars, gvars, dvars, quiet>>

StartScanStep(k) == ScanSet(k) \/ ScanClear(k) \/ ScanLaunch(k)

\* the thread goes to label with its session in state proc
ScanGoto(k, label, proc) ==
  /\ tpc' = [tpc EXCEPT ![k] = label]
  /\ tproc' = [tproc EXCEPT ![k] = proc]

\* lines 191-197: Popen succeeds or raises
ScanSpawn(k) ==
  /\ tpc[k] = "spawn"
  /\ \/ ScanGoto(k, "scan_on", "alive")
     \/ ScanGoto(k, "except", "none")
  /\ UNCHANGED <<btvars, scanning, discovered_devices, kpc, kres, titer, tlast,
                 pending, lock, envvars, cvars, svars, gvars, dvars, quiet>>

\* lines 198-199: "scan on" is written, or the write raises
ScanOn(k) ==
  /\ tpc[k] = "scan_on"
  /\ \/ ScanGoto(k, "loop", tproc[k])
     \/ ScanGoto(k, "except", tproc[k])
  /\ UNCHANGED <<btvars, scanning, discovered_devices, kpc, kres, titer, tlast,
                 pending, lock, envvars, cvars, svars, gvars, dvars, quiet>>

\* lines 202-203: the duration is over, or select() reports the pipe
\* readable, or it times out after a second
ScanSelect(k) ==
  /\ tpc[k] = "loop"
  /\ \/ /\ ScanGoto(k, "scan_off", tproc[k])
        /\ UNCHANGED titer
     \/ /\ titer[k] < MaxScanIter
        /\ titer' = [titer EXCEPT ![k] = @ + 1]
        /\ ScanGoto(k, IF pending[k] = "none" THEN "loop" ELSE "readline",
                    tproc[k])
  /\ tlast' = [tlast EXCEPT ![k] = NoLast]
  /\ UNCHANGED <<btvars, scanning, discovered_devices, kpc, kres, pending,
                 lock, envvars, cvars, svars, gvars, dvars, quiet>>

\* lines 205-213: readline() returns once the session has written a whole
\* line or closed its output, and raises on a line it cannot decode; it
\* returns "" at the end of the output
ScanReadline(k, lines) ==
  /\ tpc[k] = "readline"
  /\ \/ /\ pending[k] = "eof"
        /\ ScanGoto(k, "scan_off", tproc[k])
        /\ UNCHANGED <<discovered_devices, tlast, pending>>
     \/ /\ pending[k] = "line"
        /\ pending' = [pending EXCEPT ![k] = "none"]
        /\ ScanGoto(k, "loop", tproc[k])
        /\ \E line \in lines :
             LET mac == line.addr
                 name == Strip(line.text)
             IN IF DeviceMatch(line)
                THEN /\ tlast' = [tlast EXCEPT ![k] = [addr |-> mac, name |-> name]]
                     /\ IF KeepName(mac, name)
                        THEN discovered_devices' =
                               [discovered_devices EXCEPT ![mac] = name]
                        ELSE UNCHANGED discovered_devices
                ELSE UNCHANGED <<discovered_devices, tlast>>
     \/ /\ pending[k] = "broken"
        /\ ScanGoto(k, "except", tproc[k])
        /\ UNCHANGED <<discovered_devices, tlast, pending>>
  /\ UNCHANGED <<btvars, scanning, kpc, kres, titer, lock, envvars, cvars,
                 svars, gvars, dvars, quiet>>

\* lines 215-216: "scan off" and "exit" are written, or the write raises
ScanOff(k) ==
  /\ tpc[k] = "scan_off"
  /\ \/ ScanGoto(k, "wait", tproc[k])
     \/ ScanGoto(k, "except", tproc[k])
  /\ UNCHANGED <<btvars, scanning, discovered_devices, kpc, kres, titer, tlast,
                 pending, lock, envvars, cvars, svars, gvars, dvars, quiet>>

\* lines 217-220: the session exits within the grace period or is killed
ScanWait(k) ==
  /\ tpc[k] = "wait"
  /\ ScanGoto(k, "finally", "dead")
  /\ pending' = [pending EXCEPT ![k] = "none"]
  /\ UNCHANGED <<btvars, scanning, discovered_devices, kpc, kres, titer, tlast,
                 lock, envvars, cvars, svars, gvars, dvars, quiet>>

\* lines 221-224: a session that still runs is killed
ScanExcept(k) ==
  /\ tpc[k] = "except"
  /\ ScanGoto(k, "finally", IF tproc[k] = "alive" THEN "dead" ELSE tproc[k])
  /\ pending' = [pending EXCEPT ![k] = "none"]
  /\ UNCHANGED <<btvars, scanning, discovered_devices, kpc, kres, titer, tlast,
                 lock, envvars, cvars, svars, gvars, dvars, quiet>>

\* lines 225-227: the flag is reset; the thread ends
ScanFinally(k) ==
  /\ tpc[k] = "finally"
  /\ scanning' = FALSE
  /\ ScanGoto(k, "none", "none")
  /\ titer' = [titer EXCEPT ![k] = 0]
  /\ tlast' = [tlast EXCEPT ![k] = NoLast]
  /\ UNCHANGED <<btvars, discovered_devices, kpc, kres, pending, lock, envvars,
                 cvars, svars, gvars, dvars, quiet>>

ScanThreadStep(k, lines) ==
  \/ ScanSpawn(k)
  \/ ScanOn(k)
  \/ ScanSelect(k)
  \/ ScanReadline(k, lines)
  \/ ScanOff(k)
  \/ ScanWait(k)
  \/ ScanExcept(k)
  \/ ScanFinally(k)

\* the session of thread k writes to its output: the start of a line (the
\* prompt), a whole line, a line that is not valid text, or it closes the
\* output
SessionWrites(k) ==
  /\ tproc[k] = "alive"
  /\ \/ pending[k] = "none" /\ pending' = [pending EXCEPT ![k] = "partial"]
     \/ /\ pending[k] \in {"none", "partial"}
        /\ \E what \in {"line", "broken", "eof"} :
             pending' = [pending EXCEPT ![k] = what]
  /\ UNCHANGED <<btvars, scanning, discovered_devices, kpc, kres, tpc, titer,
                 tproc, tlast, lock, envvars, cvars, svars, gvars, dvars, quiet>>

\* ───── get_devices: lines 108-151 ──────────────────────────────────────
\* a line of the devices / paired-devices output: "Device <addr> <text>"
ListTexts == {<<>>, <<" ">>, <<"A">>, <<"a">>} \cup MACS

ListLines == [word : {"Device"}, addr : MACS, text : ListTexts]

\* the output of a query that timed out or listed nothing
SilentOutputs == {<<>>}

\* the outputs of one query: at most MaxListLines lines
ListOutputs == UNION {[1..n -> ListLines] : n \in 0..MaxListLines}

\* all_devices: a dict keeps its keys in the order of their first insertion
Keys(all) == {all[i].mac : i \in DOMAIN all}

NameOf(all, mac) ==
  IF mac \in Keys(all)
  THEN all[CHOOSE i \in DOMAIN all : all[i].mac = mac].name
  ELSE None

\* all_devices[mac] = name
Put(all, mac, name) ==
  IF mac \in Keys(all)
  THEN [i \in DOMAIN all |->
          IF all[i].mac = mac THEN [mac |-> mac, name |-> name] ELSE all[i]]
  ELSE Append(all, [mac |-> mac, name |-> name])

\* if name and name != mac
Named(mac, name) == name # <<>> /\ name # mac

\* lines 116-121: the devices output, line by line
RECURSIVE MergeDevices(_, _)
MergeDevices(all, lines) ==
  IF lines = <<>> THEN all
  ELSE LET line == Head(lines)
           name == Strip(line.text)
       IN MergeDevices(IF DeviceMatch(line) /\ Named(line.addr, name)
                       THEN Put(all, line.addr, name) ELSE all,
                       Tail(lines))

\* a name of the paired-devices output replaces the one already known
OverwriteKnown(all, mac) == TRUE

\* mac not in all_devices
KeepKnown(all, mac) == mac \notin Keys(all)

\* lines 123-129: the paired-devices output, line by line
RECURSIVE MergePaired(_, _)
MergePaired(all, lines) ==
  IF lines = <<>> THEN all
  ELSE LET line == Head(lines)
           name == Strip(line.text)
       IN MergePaired(IF /\ DeviceMatch(line) /\ KeepKnown(all, line.addr)
                         /\ Named(line.addr, name)
                      THEN Put(all, line.addr, name) ELSE all,
                      Tail(lines))

\* paired_macs.add(mac) for every matching line
PairedMacs(lines) ==
  {lines[i].addr : i \in {j \in DOMAIN lines : DeviceMatch(lines[j])}}

\* lines 131-133: the discovered map, in the order order lists its keys
RECURSIVE MergeDiscovered(_, _, _)
MergeDiscovered(all, disc, order) ==
  IF order = <<>> THEN all
  ELSE LET mac == Head(order)
       IN MergeDiscovered(IF mac \notin Keys(all) THEN Put(all, mac, disc[mac])
                          ELSE all,
                          disc, Tail(order))

\* the orders in which a dict can hold the keys of set S
Orders(S) ==
  {o \in UNION {[1..n -> S] : n \in {Cardinality(S)}} :
     \A i \in DOMAIN o, j \in DOMAIN o : i # j => o[i] # o[j]}

\* lines 137-144
Entry(dev, paired_macs, connected_mac) ==
  [mac |-> dev.mac, name |-> dev.name, paired |-> dev.mac \in paired_macs,
   connected |-> dev.mac = connected_mac]

\* the characters of this model by code point
CharOrder == <<" ", "-", "1", "A", "a">>

Code(c) == CHOOSE i \in DOMAIN CharOrder : CharOrder[i] = c

\* a < b for two str
RECURSIVE NameLess(_, _)
NameLess(a, b) ==
  IF b = <<>> THEN FALSE
  ELSE IF a = <<>> THEN TRUE
  ELSE IF Head(a) # Head(b) THEN Code(Head(a)) < Code(Head(b))
  ELSE NameLess(Tail(a), Tail(b))

\* 0 if d["connected"] else (1 if d["paired"] else 2)
Rank(d) == IF d.connected THEN 0 ELSE IF d.paired THEN 1 ELSE 2

\* the sort key of lines 146-149, compared
KeyLess(d, e) ==
  Rank(d) < Rank(e) \/ (Rank(d) = Rank(e) /\ NameLess(d.name, e.name))

\* d inserted into the sorted list behind every entry that is not greater
RECURSIVE Insert(_, _)
Insert(sorted, d) ==
  IF sorted = <<>> THEN <<d>>
  ELSE IF KeyLess(d, Head(sorted)) THEN <<d>> \o sorted
  ELSE <<Head(sorted)>> \o Insert(Tail(sorted), d)

\* devices.sort(key=...): stable
RECURSIVE SortDevices(_)
SortDevices(devices) ==
  IF devices = <<>> THEN <<>>
  ELSE Insert(SortDevices(SubSeq(devices, 1, Len(devices) - 1)),
              devices[Len(devices)])

\* locals of the running get_devices call, and what it read:
\*   all, paired_macs: as in the code;  connected_mac: what the check returned
\*   devs, pairs: the names the two outputs gave by themselves
\*   disc: the discovered map when line 131 read it
\*   queried, yes: the check issued an info query; it said "Connected: yes"
NoListLocals == [all |-> <<>>, paired_macs |-> {}, connected_mac |-> None,
                 devs |-> <<>>, pairs |-> <<>>,
                 disc |-> [m \in MACS |-> None],
                 queried |-> FALSE, yes |-> FALSE]

\* lines 110, 116-121; outputs: what the query can return
ListDevices(outputs) ==
  /\ lpc = "idle"
  /\ \E lines \in outputs :
       lloc' = [NoListLocals EXCEPT !.all = MergeDevices(<<>>, lines),
                                    !.devs = MergeDevices(<<>>, lines)]
  /\ lpc' = "paired"
  /\ quiet' = FALSE
  /\ failed' = None /\ response' = NoResponse /\ returned' = NoReturn
  /\ UNCHANGED <<btvars, scanvars, lock, link, now, cvars, svars, gpc, gq, gres, gat,
                 lres, dvars>>

\* lines 111, 123-129
ListPaired(outputs) ==
  /\ lpc = "paired"
  /\ \E lines \in outputs :
       lloc' = [lloc EXCEPT !.all = MergePaired(lloc.all, lines),
                            !.paired_macs = PairedMacs(lines),
                            !.pairs = MergePaired(<<>>, lines)]
  /\ lpc' = "discovered"
  /\ quiet' = FALSE
  /\ UNCHANGED <<btvars, scanvars, lock, envvars, cvars, svars, gpc, gq, gres, gat,
                 lres, dvars>>

\* lines 131-133
ListDiscovered ==
  /\ lpc = "discovered"
  /\ \E order \in Orders({m \in MACS : discovered_devices[m] # None}) :
       lloc' = [lloc EXCEPT !.all = MergeDiscovered(lloc.all, discovered_devices, order),
                            !.disc = discovered_devices]
  /\ lpc' = "live"
  /\ quiet' = FALSE
  /\ UNCHANGED <<btvars, scanvars, lock, envvars, cvars, svars, gpc, gq, gres, gat,
                 lres, dvars>>

\* connected_mac = self._get_connected_live(): lines 159-166
ListLive ==
  /\ lpc = "live"
  /\ IF connected_device = None
     THEN /\ lloc' = [lloc EXCEPT !.connected_mac = None]
          /\ lpc' = "build"
          /\ UNCHANGED btvars
     ELSE IF CacheFresh(now)
     THEN /\ lloc' = [lloc EXCEPT !.connected_mac = connected_device]
          /\ lpc' = "build"
          /\ UNCHANGED btvars
     ELSE /\ last_check_time' = now
          /\ lpc' = "query"
          /\ UNCHANGED <<connected_device, connected_device_name, config, lloc>>
  /\ quiet' = FALSE
  /\ UNCHANGED <<scanvars, lock, envvars, cvars, svars, gpc, gq, gres, gat, lres, dvars>>

\* line 167: self._is_connected(self.connected_device)
ListQuery ==
  /\ lpc = "query"
  /\ \E output \in QueryOutputs(connected_device) :
       lloc' = [lloc EXCEPT !.queried = TRUE, !.yes = IsConnectedOut(output)]
  /\ lpc' = "verify"
  /\ quiet' = FALSE
  /\ UNCHANGED <<btvars, scanvars, lock, envvars, cvars, svars, gpc, gq, gres, gat,
                 lres, dvars>>

\* the answer taken for a negative one whatever it was
ListAnswerNever == FALSE

\* what the if of line 167 tests
ListAnswer == lloc.yes

\* lines 167-174
ListVerify ==
  /\ lpc = "verify"
  /\ IF ListAnswer
     THEN /\ UNCHANGED btvars
          /\ lloc' = [lloc EXCEPT !.connected_mac = connected_device]
     ELSE /\ ClearConnected
          /\ UNCHANGED last_check_time
          /\ lloc' = [lloc EXCEPT !.connected_mac = None]
  /\ lpc' = "build"
  /\ quiet' = FALSE
  /\ UNCHANGED <<scanvars, lock, envvars, cvars, svars, gpc, gq, gres, gat, lres, dvars>>

\* lines 137-151: the entries, sorted
ListBuild ==
  /\ lpc = "build"
  /\ lres' = SortDevices([i \in DOMAIN lloc.all |->
                Entry(lloc.all[i], lloc.paired_macs, lloc.connected_mac)])
  /\ lpc' = "return"
  /\ quiet' = FALSE
  /\ UNCHANGED <<btvars, scanvars, lock, envvars, cvars, svars, gpc, gq, gres, gat,
                 lloc, dvars>>

\* api_bt_devices has the list
ListReturn ==
  /\ lpc = "return"
  /\ lpc' = "idle"
  /\ lloc' = NoListLocals
  /\ lres' = <<>>
  /\ quiet' = FALSE
  /\ UNCHANGED <<btvars, scanvars, lock, envvars, cvars, svars, gpc, gq, gres, gat, dvars>>

ListStep(outputs) ==
  \/ ListDevices(outputs) \/ ListPaired(outputs) \/ ListDiscovered \/ ListLive
  \/ ListQuery \/ ListVerify \/ ListBuild \/ ListReturn

\* ───── environment ─────────────────────────────────────────────────────
\* The Bluetooth stack brings a link up or drops it at any moment; what a
\* connect or disconnect directive does to the link is part of this.
LinkUp(m) ==
  /\ m \notin link
  /\ link' = link \cup {m}
  /\ UNCHANGED <<btvars, scanvars, lock, now, failed, response, returned, cvars, svars, gvars, dvars, quiet>>

LinkDown(m) ==
  /\ m \in link
  /\ link' = link \ {m}
  /\ UNCHANGED <<btvars, scanvars, lock, now, failed, response, returned, cvars, svars, gvars, dvars, quiet>>

\* time passes
Tick ==
  /\ now + TickLen <= MaxTime
  /\ now' = now + TickLen
  /\ UNCHANGED <<btvars, scanvars, lock, link, failed, response, returned, cvars, svars, gvars, dvars, quiet>>

\* ───── __init__ and _load_config ───────────────────────────────────────
\* the config file left by an earlier run: absent/corrupt, or a saved device
LoadableConfigs ==
  {SavedConfig(None, None)} \cup {SavedConfig(m, Alias(m)) : m \in MACS}

InitBase ==
  /\ config \in LoadableConfigs
  /\ connected_device = config.last_device
  /\ connected_device_name = config.last_device_name
  /\ last_check_time = 0
  /\ scanning = FALSE
  /\ lock = NoThread
  /\ link \in SUBSET MACS
  /\ now = CacheWindow
  /\ failed = None
  /\ response = NoResponse
  /\ returned = NoReturn
  /\ cpc = [t \in THREADS |-> IF t = Startup THEN "boot" ELSE "idle"]
  /\ cmac = [t \in THREADS |-> MacA]
  /\ cloc = [t \in THREADS |-> NoLocals]
  /\ ctrace = [t \in THREADS |-> <<>>]
  /\ cresult = [t \in THREADS |-> NoResult]
  /\ spc = [r \in READERS |-> "idle"]
  /\ sloc = [r \in READERS |-> NoStatusLocals]
  /\ sres = [r \in READERS |-> NoStatus]
  /\ gpc = "idle" /\ gq = FALSE /\ gres = None /\ gat = 0
  /\ lpc = "idle" /\ lloc = NoListLocals /\ lres = <<>>
  /\ dpc = "idle" /\ dmac = None
  /\ dloc = NoCall /\ dtrace = <<>> /\ dres = "none"
  /\ prev = NoPrev
  /\ kpc = [k \in CALLERS |-> "idle"]
  /\ kres = [k \in CALLERS |-> "none"]
  /\ tpc = [k \in CALLERS |-> "none"]
  /\ titer = [k \in CALLERS |-> 0]
  /\ tproc = [k \in CALLERS |-> "none"]
  /\ tlast = [k \in CALLERS |-> NoLast]
  /\ pending = [k \in CALLERS |-> "none"]
  /\ quiet = FALSE

\* the state after construction: nothing discovered yet
Init == InitBase /\ discovered_devices = [m \in MACS |-> None]

vars == <<btvars, scanvars, lock, envvars, cvars, svars, gvars, dvars, quiet>>

NextConnect ==
  \/ \E t \in CONNS : ConnectStep(t)
  \/ \E t \in CONNS : SessionCompletesLine(t)
  \/ \E m \in MACS : LinkUp(m) \/ LinkDown(m)

SpecConnect == Init /\ [][NextConnect]_vars

\* the calls keep running: a thread that can take a step of connect takes
\* it; nothing obliges a session to write the end of a line it has begun
InitFresh == Init /\ config = SavedConfig(None, None)

LiveConnect ==
  InitFresh /\ [][NextConnect]_vars /\ \A t \in CONNS : WF_vars(ConnectStep(t))

\* the status readers, the disconnect/remove caller, the stack and the clock
NextStatus ==
  \/ \E r \in READERS : StatusStep(r)
  \/ GcdStep
  \/ DisconnectStep
  \/ \E m \in MACS : LinkUp(m) \/ LinkDown(m)
  \/ Tick

SpecStatus == Init /\ [][NextStatus]_vars

\* a fresh installation: no config file, no device linked
InitScan == Init /\ config = SavedConfig(None, None) /\ link = {}

\* two scan callers, their threads and the sessions of these
NextScan ==
  \/ \E k \in CALLERS : ScanCheck(k)
  \/ \E k \in CALLERS : StartScanStep(k)
  \/ \E k \in CALLERS : ScanThreadStep(k, ShortLines)
  \/ \E k \in CALLERS : SessionWrites(k)

SpecScan == InitScan /\ [][NextScan]_vars

\* one scan caller, with one device in range whose name is any text
NextFilter ==
  \/ ScanCheck("k1")
  \/ StartScanStep("k1")
  \/ ScanThreadStep("k1", LinesOf(MacA))
  \/ SessionWrites("k1")

SpecFilter == InitScan /\ [][NextFilter]_vars

\* the call and its thread go on whenever they can take a step; the session
\* and the caller are free to stay silent
LiveFilter ==
  SpecFilter /\ WF_vars(StartScanStep("k1"))
             /\ WF_vars(ScanThreadStep("k1", LinesOf(MacA)))

\* a device remembered or not, one scan caller with devices of short names
\* in range, and the disconnect / remove caller
InitRemove == Init /\ link = {}

NextRemove ==
  \/ ScanCheck("k1")
  \/ StartScanStep("k1")
  \/ ScanThreadStep("k1", ShortLines)
  \/ SessionWrites("k1")
  \/ DisconnectStep

SpecRemove == InitRemove /\ [][NextRemove]_vars

\* the discovered maps an earlier scan can have left
DiscoveredMaps == [MACS -> {None, <<"A">>, <<"a">>}]

\* one device linked, any device remembered, any such map
InitList == InitBase /\ discovered_devices \in DiscoveredMaps /\ link = {MacA}

\* the get_devices caller, one call after the other
SpecList == InitList /\ [][ListStep(ListOutputs)]_vars

\* the startup thread, then the routes, served one at a time, with the
\* stack free to drop a link in between and meanwhile
NextSession ==
  \/ Only("startup") /\ AutoReconnectStep
  \/ Only("connect") /\ (ConnectStep("c1") \/ SessionCompletesLine("c1"))
  \/ Only("check") /\ GcdStep
  \/ Only("disconnect") /\ DisconnectStep
  \/ Only("list") /\ ListStep(SilentOutputs)
  \/ Only("scan") /\ (ScanCheck("k1") \/ StartScanStep("k1")
                        \/ ScanThreadStep("k1", ShortLines \cap LinesOf(MacA))
                        \/ SessionWrites("k1"))
  \/ \E m \in MACS : LinkDown(m)

\* any config file, the first device linked
InitSession == Init /\ link = {MacA}

SpecSession == InitSession /\ [][NextSession]_vars

\* the startup thread, then connect calls and status polls, one at a time,
\* while links drop
NextCache ==
  \/ Only("startup") /\ AutoReconnectStep
  \/ Only("connect") /\ (ConnectStep("c1") \/ SessionCompletesLine("c1"))
  \/ Only("status") /\ StatusStep("s1")
  \/ \E m \in MACS : LinkDown(m)

\* a fresh installation, the first device linked
InitLinked == InitFresh /\ link = {MacA}

SpecCache == InitLinked /\ [][NextCache]_vars

\* a connect call and a disconnect call served by two threads at once
NextRace ==
  \/ ConnectStep("c1") \/ SessionCompletesLine("c1")
  \/ \E mac \in MACS \cup {None} : DisconnectCall(mac)
  \/ DisconnectCompare
  \/ SaveDump
  \/ SaveWrite
  \/ DisconnectReturn

SpecRace == InitLinked /\ [][NextRace]_vars

\* one HTTP worker serving connect calls, one after the other, while links
\* come and go
NextTiers ==
  \/ ConnectStep("c1")
  \/ SessionCompletesLine("c1")
  \/ \E m \in MACS : LinkUp(m) \/ LinkDown(m)

SpecTiers == InitFresh /\ [][NextTiers]_vars

\* the startup thread and a client polling the status route, both running
\* from the moment the server is up
NextBoot ==
  \/ AutoReconnectStep
  \/ SessionCompletesLine(Startup)
  \/ StatusStep("s1")

\* the first device was saved by the run before
InitBoot == Init /\ config = SavedConfig(MacA, Alias(MacA))

SpecBoot == InitBoot /\ [][NextBoot]_vars

\* connect calls for the second device and status polls, served by two
\* threads at once
NextPoll ==
  \/ ConnectStep("c1") /\ cmac'["c1"] = MacB
  \/ StatusStep("s1")

\* the first device recorded from the run before, the second one linked
InitPoll == InitBoot /\ link = {MacB}

SpecPoll == InitPoll /\ [][NextPoll]_vars

\* the startup thread, then the audio path's check and the status route, one
\* call at a time, while time passes and links drop
NextFollow ==
  \/ Only("startup") /\ (AutoReconnectStep \/ SessionCompletesLine(Startup))
  \/ Only("check") /\ GcdStep
  \/ Only("status") /\ StatusStep("s1")
  \/ \E m \in MACS : LinkDown(m)
  \/ Tick

SpecFollow == InitBoot /\ [][NextFollow]_vars

\* ═════ properties of connect ═══════════════════════════════════════════
Issued(t, e) == \E k \in DOMAIN ctrace[t] : ctrace[t][k] = e

\* thread t takes a step of its call
Moves(t) == cpc'[t] # cpc[t] \/ ctrace'[t] # ctrace[t] \/ cloc'[t] # cloc[t]

ConnState == <<connected_device, connected_device_name, config>>

\* C1: two connect calls are never both between their first and their last
\* transport step: while one call has logged a transport step and has not
\* returned, the other has logged none, and the one inside holds the lock.
C1_Serialized ==
  \A t \in CONNS, u \in CONNS :
    (t # u /\ ctrace[t] # <<>>) => (ctrace[u] = <<>> /\ lock = t)

\* a second call is blocked on the lock while the first works
C1_Witness ==
  \E t \in CONNS, u \in CONNS :
    t # u /\ Issued(t, "connect") /\ cpc[u] = "lock" /\ cmac[u] # cmac[t]

\* C2: when the first info query of a call reports the device connected, the
\* call issues no pair and no connect directive, returns success with the
\* name parsed from the name query, and its commit sets Connection State and
\* the saved config to the address and that name.
C2_AlreadyState ==
  \A t \in CONNS :
    cloc[t].first_connected =>
      /\ cpc[t] \in {"already", "return"}
      /\ ~Issued(t, "pair") /\ ~Issued(t, "connect") /\ ~Issued(t, "open")
      /\ cpc[t] = "return" =>
           /\ cresult[t].success
           /\ cresult[t].message = "Bereits verbunden mit"
           /\ cresult[t].name \in {Alias(cmac[t]), Unbekannt}

C2_AlreadyCommit ==
  \A t \in CONNS :
    (cloc[t].first_connected /\ cpc[t] = "already" /\ cpc'[t] = "return") =>
      /\ connected_device' = cmac[t]
      /\ connected_device_name' = cresult'[t].name
      /\ config' = SavedConfig(cmac[t], cresult'[t].name)

C2_AlreadyConnected == [][C2_AlreadyCommit]_vars /\ []C2_AlreadyState

C2_Witness ==
  \E t \in CONNS :
    /\ cpc[t] = "return" /\ cloc[t].first_connected
    /\ cresult[t].name = Alias(cmac[t]) /\ connected_device = cmac[t]

\* C3 (as claimed): a call whose pairing wait ended on the connected
\* notification issues no connect directive.
C3_PairShortCircuit ==
  \A t \in CONNS : cloc[t].pair_end = "connected" => ~Issued(t, "connect")

\* C4: a call whose connect wait did not report success (error is set) and
\* whose verification query then reported the device connected (it stands at
\* _finalize_connect) returns success next and commits Connection State.
VerifiedAfterFailedWait(t) == cpc[t] = "finalize" /\ cloc[t].error # ""

C4_Step ==
  \A t \in CONNS :
    (VerifiedAfterFailedWait(t) /\ Moves(t)) =>
      /\ cpc'[t] = "return"
      /\ cresult'[t].success
      /\ cresult'[t].name \in {Alias(cmac[t]), Unbekannt}
      /\ connected_device' = cmac[t]
      /\ connected_device_name' = cresult'[t].name
      /\ config' = SavedConfig(cmac[t], cresult'[t].name)

C4_DelayedSuccess == [][C4_Step]_vars

\* the wait ended without success, its session closed, the query said yes
C4_Witness ==
  \E t \in CONNS :
    /\ VerifiedAfterFailedWait(t)
    /\ cloc[t].error \in {MsgGeneric, MsgProfile, MsgLinkLayer}
    /\ cmac[t] \in link

C5_State ==
  \A t \in CONNS :
    cloc[t].pair_end = "failed" =>
      /\ cpc[t] \in {"pair_close", "return"}
      /\ ~Issued(t, "connect")
      /\ cpc[t] = "return" =>
           /\ ~cresult[t].success
           /\ cresult[t].name = None
           /\ cresult[t].message =
                (IF Issued(t, "exit") THEN MsgPairFailed ELSE MsgPairError)

C5_Frame ==
  \A t \in CONNS :
    (Moves(t) /\ (cloc[t].pair_end = "failed" \/ cloc'[t].pair_end = "failed"
                  \/ cpc'[t] \in {"lock", "power_on", "is_connected", "info",
                                  "trust", "pair_open", "pair_wait"}))
      => UNCHANGED ConnState

Returning(r) == spc[r] = "return"

\* the call of r started when the cache window of the stamp had elapsed
Elapsed(r) == sloc[r].t0 - sloc[r].stamp >= CacheWindow

\* C7: a get_status call that starts within the cache window the previous
\* call left, with no connect, disconnect, remove or other status check
\* since that call took its answer, returns the connected value that call returned
\* and issues no info query, whatever the link did meanwhile.
C7_CachedAnswer ==
  \A r \in READERS :
    (Returning(r) /\ prev.valid /\ sloc[r].quiet0
       /\ sloc[r].t0 - prev.window < CacheWindow)
      => (sres[r].connected = prev.connected /\ ~sloc[r].queried)

\* the second call reports connected, later than the stamp, for a device
\* whose link is down
C7_Witness ==
  \E r \in READERS :
    /\ Returning(r) /\ prev.valid /\ sloc[r].quiet0
    /\ sloc[r].t0 - prev.window < CacheWindow /\ sloc[r].t0 > prev.window
    /\ sres[r].connected /\ sres[r].connected_mac \notin link

C6_ScanEnds == (kres["k1"] = "true") ~> ~scanning

HexDigits == UpperHex \cup {"a", "b", "c", "d", "e", "f"}

\* the names held by the map
Discovered == {m \in MACS : discovered_devices[m] # None}

\* C9 (as claimed): no entry of the discovered map has a name that equals
\* its address or is written with hex digits, colons and hyphens only.
C9_NoHexName ==
  \A m \in Discovered :
    /\ discovered_devices[m] # m
    /\ \E i \in DOMAIN discovered_devices[m] :
         discovered_devices[m][i] \notin HexDigits \cup {":", "-"}

\* C9 (amended): no entry of the discovered map has a name that is empty,
\* starts or ends with a blank, equals its address, or is written with the
\* digits 0-9, the capitals A-F, colons and hyphens only.
C9_NoAddressName ==
  \A m \in Discovered :
    /\ discovered_devices[m] # m
    /\ Head(discovered_devices[m]) # " "
    /\ discovered_devices[m][Len(discovered_devices[m])] # " "
    /\ \E i \in DOMAIN discovered_devices[m] :
         discovered_devices[m][i] \notin
           {"0", "1", "2", "3", "4", "5", "6", "7", "8", "9",
            "A", "B", "C", "D", "E", "F", ":", "-"}

\* the thread has read a discovery line that names a device by its own
\* address, and the map has no entry for it
C9_Witness ==
  \E k \in CALLERS :
    /\ tpc[k] = "loop" /\ tlast[k].addr # None
    /\ tlast[k].name = tlast[k].addr
    /\ discovered_devices[tlast[k].addr] = None

\* sessions of scan threads that are running
ScanSessions == {k \in CALLERS : tproc[k] = "alive"}

\* C10: at most one scan session is active at any time.
C10_OneSession == Cardinality(ScanSessions) <= 1

\* ═════ properties of Connection State ═════════════════════════════════
\* a connect call of thread t is inside its workflow
InWorkflow(t) == cpc[t] \notin {"idle", "lock"}

\* C11 (construction): while no verification has recorded a check time and
\* no connect workflow or verification is under way, no query has observed
\* a link, so no device is recorded.
C11_LoadedUnverified ==
  (last_check_time = 0 /\ gpc # "verify" /\ \A t \in CONNS : ~InWorkflow(t))
    => connected_device = None

\* C11 (failed connect): a connect call that returns failure after its
\* workflow observed no link leaves its address not recorded.
C11_FailedConnect ==
  \A t \in CONNS :
    (cpc[t] = "return" /\ ~cresult[t].success) => connected_device # cmac[t]

\* C11: connected_device is non-null only if the most recent verification
\* query or connect workflow for that address observed a live link, also
\* right after construction and right after a failed connect call.
C11_VerifiedOnly == C11_LoadedUnverified /\ C11_FailedConnect

\* C15: a status verification whose info query produced no output does not
\* clear Connection State: when such a get_status call returns and no other
\* operation acted during it, the device it queried is still recorded.
C15_EmptyKeepsState ==
  \A r \in READERS :
    (spc[r] = "return" /\ sloc[r].queried /\ ~sloc[r].answered /\ sloc[r].alone)
      => (connected_device = sloc[r].q /\ config.last_device = sloc[r].q)

\* C16: whatever the transport does, a connect call never leaves by an
\* exception, and what it returns has a boolean success and a message.
C16_ResultNeverRaises ==
  \A t \in CONNS :
    /\ cpc[t] # "raised"
    /\ cpc[t] = "return" =>
         /\ cresult[t].success \in BOOLEAN
         /\ cresult[t].message # ""

\* a call returns what the except branch of a session built
C16_Witness ==
  \E t \in CONNS :
    /\ cpc[t] = "return"
    /\ cresult[t].message \in {MsgPairError, MsgConnectError}
    /\ ~cresult[t].success

\* C17: every connect call that has entered its workflow eventually returns
\* and releases the lock (so that a call waiting for the lock can run).
C17_ConnectReturns ==
  \A t \in CONNS : (lock = t) ~> (lock # t /\ cpc[t] = "idle")

\* ═════ properties of disconnect and remove_device ═════════════════════
\* the step of a disconnect call that takes it to its return
DisconnectReturns == dloc'.op = "disconnect" /\ dpc # "return" /\ dpc' = "return"

\* C18 (target): a disconnect call goes to work on the address it was given,
\* or without one on the device recorded; with neither it returns False at
\* once, having issued no directive and changed nothing.
C18_Target ==
  (dpc = "idle" /\ dloc'.op = "disconnect") =>
     IF dloc'.arg # None THEN dpc' = "disconnect" /\ dmac' = dloc'.arg
     ELSE IF connected_device # None
          THEN dpc' = "disconnect" /\ dmac' = connected_device
          ELSE /\ dpc' = "return" /\ dres' = "false" /\ dtrace' = <<>>
               /\ UNCHANGED ConnState

\* C18 (effect): the call that went to work issues the disconnect directive
\* and returns True; it clears Connection State and the config when its
\* target is the recorded device and leaves both alone when it is not.
C18_Effect ==
  (dpc = "disconnect" /\ DisconnectReturns) =>
     /\ dres' = "true" /\ dtrace' = <<"disconnect">>
     /\ IF connected_device = dmac
        THEN /\ connected_device' = None /\ connected_device_name' = None
             /\ config' = SavedConfig(None, None)
        ELSE UNCHANGED ConnState

\* C18: disconnect() without an address targets the current device, clears
\* and persists Connection State exactly when the target is the current
\* device, and with neither address nor device returns False without a
\* directive.
C18_Disconnect == [][C18_Target /\ C18_Effect]_vars

\* a disconnect() without address has cleared the recorded device
C18_Witness ==
  /\ dpc = "return" /\ dloc.op = "disconnect" /\ dloc.arg = None
  /\ dres = "true" /\ dloc.current = dmac /\ connected_device = None

\* C19: remove_device issues the disconnect directive, then the remove
\* directive; it clears Connection State exactly when its address is the
\* recorded device; and when it returns the address is not in the
\* discovered map.
C19_Remove ==
  [][(dpc = "remove" /\ dpc' = "return") =>
       /\ dtrace' = <<"disconnect", "remove">>
       /\ dres' = "true"
       /\ IF connected_device = dmac
          THEN /\ connected_device' = None /\ connected_device_name' = None
               /\ config' = SavedConfig(None, None)
          ELSE UNCHANGED ConnState
       /\ discovered_devices'[dmac] = None]_vars

\* a removal of the recorded device, which a scan had discovered
C19_Witness ==
  /\ dpc = "return" /\ dloc.op = "remove" /\ dloc.found
  /\ dloc.current = dmac /\ connected_device = None
  /\ ~scanning /\ \A k \in CALLERS : tpc[k] = "none"

\* ═════ properties of get_devices ══════════════════════════════════════
\* the name the three sources give an address, by precedence
NameBySource(mac) ==
  IF NameOf(lloc.devs, mac) # None THEN NameOf(lloc.devs, mac)
  ELSE IF NameOf(lloc.pairs, mac) # None THEN NameOf(lloc.pairs, mac)
  ELSE lloc.disc[mac]

\* the entries of the returned list for an address
EntriesOf(mac) == {i \in DOMAIN lres : lres[i].mac = mac}

\* C20: the list get_devices returns has one entry for every address that
\* one of the three sources names and none for any other; the entry's name
\* is the one of the devices output, else of the paired-devices output,
\* else of the discovered map.
C20_Precedence ==
  lpc = "return" =>
    \A mac \in MACS :
      IF NameBySource(mac) = None THEN EntriesOf(mac) = {}
      ELSE /\ Cardinality(EntriesOf(mac)) = 1
           /\ \A i \in EntriesOf(mac) : lres[i].name = NameBySource(mac)

\* one address named differently by the devices and the paired-devices
\* output, and another one that only the discovered map holds
C20_Witness ==
  /\ lpc = "return"
  /\ \E m \in MACS, n \in MACS :
       /\ NameOf(lloc.devs, m) # None
       /\ NameOf(lloc.pairs, m) \notin {None, NameOf(lloc.devs, m)}
       /\ NameOf(lloc.devs, n) = None /\ NameOf(lloc.pairs, n) = None
       /\ lloc.disc[n] # None
       /\ EntriesOf(n) # {}

\* ═════ properties of the frame and of the cache ═══════════════════════
\* the step is the commit of a connect call that returns success
ConnectCommits ==
  \E t \in THREADS :
    /\ cpc[t] \in {"already", "finalize"} /\ cpc'[t] = "return"
    /\ cresult'[t].success
    /\ connected_device' = cmac[t]

\* the step is the comparison of a disconnect or remove call for the
\* recorded address
DropsCurrent ==
  /\ dpc \in {"disconnect", "remove"} /\ dpc' = "return"
  /\ dmac = connected_device
  /\ connected_device' = None

\* the step is the end of a verification (of get_status, get_devices or
\* get_connected_device) whose query did not say "Connected: yes": the
\* code takes every such answer, an empty one too, for a failed verification
VerificationFails ==
  /\ \/ \E r \in READERS : spc[r] = "verify" /\ spc'[r] = "return" /\ ~sloc[r].yes
     \/ lpc = "verify" /\ lpc' = "build" /\ ~lloc.yes
     \/ gpc = "verify" /\ gpc' = "return" /\ ~gq
  /\ connected_device' = None

\* the step is the detection of a connected device by the startup thread
Detects == cpc[Startup] = "boot" /\ cpc'[Startup] = "decide"

\* C12 (as stated): Connection State changes only in a successful connect,
\* a disconnect or remove of the current address, or a failed verification.
C12_ChangedOnlyBy ==
  [][ConnState' # ConnState =>
       ConnectCommits \/ DropsCurrent \/ VerificationFails]_vars

\* C12 (amended): it changes only in those steps or in the detection of a
\* connected device at startup; a connect call that returns failure, a
\* disconnect or remove of another address, start_scan, its thread and a
\* get_devices call whose verification passed leave it unchanged.
C12_Frame ==
  [][/\ ConnState' # ConnState =>
          ConnectCommits \/ DropsCurrent \/ VerificationFails \/ Detects
     /\ \A t \in THREADS :
          (cpc'[t] = "return" /\ ~cresult'[t].success) => UNCHANGED ConnState
     /\ (dpc' = "return" /\ dpc # "return" /\ dmac # connected_device)
          => UNCHANGED ConnState
     /\ (kpc' # kpc \/ tpc' # tpc) => UNCHANGED ConnState
     /\ (lpc' # lpc /\ ~(lpc = "verify" /\ ~lloc.yes)) => UNCHANGED ConnState]_vars

\* a connect call returns failure while a device is recorded and a scan
\* has found one
C12_Witness ==
  /\ cpc["c1"] = "return" /\ ~cresult["c1"].success
  /\ connected_device # None
  /\ discovered_devices[MacA] # None

\* C14: the get_status call that follows a connect call which returned
\* failure for address a does not answer from the cache that a is connected.
C14_NoStaleAnswer ==
  \A r \in READERS :
    (spc[r] = "return" /\ sloc[r].after # None) =>
       ~(/\ sres[r].connected
         /\ sres[r].connected_mac = sloc[r].after
         /\ ~sloc[r].queried)

\* no connect, disconnect, remove_device, get_status or
\* get_connected_device call is in flight
NoCallInFlight ==
  /\ \A t \in CONNS : cpc[t] = "idle"
  /\ \A r \in READERS : spc[r] = "idle"
  /\ gpc = "idle" /\ dpc = "idle"

\* C13: whenever no operation is in flight the config file holds the device
\* and the name that Connection State holds.
C13_PersistedEqualsMemory ==
  NoCallInFlight =>
    config = SavedConfig(connected_device, connected_device_name)

\* ═════ properties of the connect tiers ════════════════════════════════
\* C21: when connect returns failure after its connect attempts and the
\* line that ended its last connect wait reported profile-unavailable or a
\* link-layer error, the message of the result is that error's message.
C21_MostSpecific ==
  \A t \in THREADS :
    (cpc[t] = "return" /\ ~cresult[t].success /\ cloc[t].attempt = 2
       /\ cloc[t].heard # "")
      => cresult[t].message = cloc[t].heard

\* C22: the answer api_bt_connect gives for a connect call that returned
\* failure has a status outside 200..299 and carries the failure message.
C22_FailureStatus ==
  (response # NoResponse /\ ~response.connected) =>
     /\ response.status \notin 200..299
     /\ response.message # ""

\* C23: the step with which a connect call that has issued a connect
\* directive comes to return failure is the verification query that follows
\* a connect attempt: the info query is the last entry of the call's
\* transport log, and its answer did not say "Connected: yes".
C23_Reverifies ==
  [][\A t \in THREADS :
       (/\ cpc[t] # "return" /\ cpc'[t] = "return"
        /\ ~cresult'[t].success
        /\ Issued(t, "connect"))
       => /\ cpc[t] = "verify"
          /\ ctrace'[t] = Append(ctrace[t], "info")
          /\ cloc'[t].reverified = "no"]_vars

\* a call has returned failure after both of its connect attempts
C23_Witness ==
  \E t \in THREADS :
    /\ cpc[t] = "return" /\ ~cresult[t].success
    /\ Issued(t, "connect") /\ cloc[t].attempt = 2
    /\ cloc[t].reverified = "no"

\* entry e of the log of t lies strictly between positions a and b
Between(t, e, a, b) == {k \in (a + 1)..(b - 1) : ctrace[t][k] = e}

\* C24: in the transport log of a connect call every pair directive has
\* before it, in this order, the power-on request, the trust directive, the
\* opening of its session, and in that session the agent registration, the
\* opening and the closing of the discovery window.
C24_PairPrepared ==
  \A t \in THREADS : \A k \in DOMAIN ctrace[t] :
    ctrace[t][k] = "pair" =>
      \E p \in Between(t, "power", 0, k) :
      \E r \in Between(t, "trust", p, k) :
      \E o \in Between(t, "open", r, k) :
      \E a \in Between(t, "agent", o, k) :
      \E n \in Between(t, "scan on", a, k) :
      \E f \in Between(t, "scan off", n, k) :
        Between(t, "open", o, k) \cup Between(t, "exit", o, k) = {}

\* a call has written its pair directive
C24_Witness == \E t \in THREADS : Issued(t, "pair") /\ cpc[t] = "pair_wait"

\* C25: a session process of a connect call is alive only while the call
\* is inside _do_pair or _do_connect, between the Popen and the end of the
\* teardown; a session process of a scan thread is alive only while the
\* thread is between its Popen and the end of its teardown or except branch.
C25_SessionsEnd ==
  /\ \A t \in THREADS :
       cloc[t].alive =>
         cpc[t] \in {"pair_wait", "pair_readline", "pair_close",
                     "connect_wait", "connect_readline", "connect_close"}
  /\ \A k \in CALLERS :
       tproc[k] = "alive" =>
         tpc[k] \in {"scan_on", "loop", "readline", "scan_off", "wait", "except"}

\* a call returns after a session whose exit directive was never written:
\* the except branch has ended it
C25_Witness ==
  \E t \in THREADS :
    /\ cpc[t] = "return" /\ Issued(t, "pair") /\ ~Issued(t, "exit")
    /\ ~cloc[t].alive

\* how often the call of t has logged e
Count(t, e) == Cardinality({k \in DOMAIN ctrace[t] : ctrace[t][k] = e})

\* C26: a connect call that has the lock and has done nothing yet has an
\* empty log and fresh locals, whatever earlier calls did; and a call never
\* logs more than one pair directive, two connect directives or one audio
\* restart, nor polls more than ten times.
C26_OwnBudget ==
  \A t \in THREADS :
    /\ cpc[t] = "power_on" => (ctrace[t] = <<>> /\ cloc[t] = NoLocals)
    /\ Count(t, "pair") <= 1
    /\ Count(t, "connect") <= 2
    /\ Count(t, "restart") <= 1
    /\ cloc[t].i <= PollCount

\* a call that follows a successful one has used its whole budget and failed
C26_Witness ==
  \E t \in THREADS :
    /\ cpc[t] = "return" /\ ~cresult[t].success
    /\ Count(t, "connect") = 2 /\ Count(t, "restart") = 1
    /\ cloc[t].i = PollCount
    /\ connected_device # None

\* C27: in the transport log of a connect call every connect directive has a
\* disconnect directive before it, with no other connect directive between
\* the two.
C27_DisconnectFirst ==
  \A t \in THREADS : \A k \in DOMAIN ctrace[t] :
    ctrace[t][k] = "connect" =>
      \E d \in Between(t, "disconnect", 0, k) :
        Between(t, "connect", d, k) = {}

\* a call has written the connect directive of its second attempt
C27_Witness ==
  \E t \in THREADS : Count(t, "connect") = 2 /\ cpc[t] = "connect_wait"

\* ═════ properties of auto_reconnect ═══════════════════════════════════
\* C28: in a run that loaded a device from the persisted config,
\* auto_reconnect does not return without having run the connect workflow:
\* it runs it for the device it detects, or else for the loaded one.
C28_RunsForPersisted ==
  [][(cpc[Startup] = "decide" /\ cpc'[Startup] # "decide") =>
       /\ cpc'[Startup] = "lock"
       /\ cmac'[Startup] \in MACS]_vars

\* ═════ properties of concurrent status checks ═════════════════════════
\* C29: the verification step of a get_status call whose query was for one
\* device leaves Connection State alone when it holds a different device.
C29_NoCrossClear ==
  [][\A r \in READERS :
       (/\ spc[r] = "verify" /\ spc'[r] = "return"
        /\ connected_device # None
        /\ sloc[r].q # connected_device)
       => UNCHANGED <<connected_device, connected_device_name>>]_vars

\* C30 (as claimed): a get_status call that begins right after
\* get_connected_device returned, no operation in between, reports the
\* device that call returned: connected_mac is the returned address, and
\* connected is false when it returned None.
C30_SameDevice ==
  \A r \in READERS :
    (spc[r] = "return" /\ sloc[r].follows.called) =>
      /\ sres[r].connected_mac = sloc[r].follows.device
      /\ sloc[r].follows.device = None => ~sres[r].connected

\* C30 (amended): the same, for a get_status call that begins after
\* get_connected_device returned None, or less than CacheWindow seconds
\* after get_connected_device stored the time of its check.
C30_SameDeviceInWindow ==
  \A r \in READERS :
    (/\ spc[r] = "return"
     /\ sloc[r].follows.called
     /\ \/ sloc[r].follows.device = None
        \/ sloc[r].t0 - sloc[r].follows.at < CacheWindow) =>
      /\ sres[r].connected_mac = sloc[r].follows.device
      /\ sres[r].connected = (sloc[r].follows.device # None)

\* a get_status call that began within the window, time having passed, after
\* get_connected_device returned a device whose link has dropped since, and
\* that reports that device
C30_Witness ==
  \E r \in READERS :
    /\ spc[r] = "return"
    /\ sloc[r].follows.called
    /\ sloc[r].follows.device \in MACS
    /\ sloc[r].follows.device \notin link
    /\ sloc[r].t0 > sloc[r].follows.at
    /\ sloc[r].t0 - sloc[r].follows.at < CacheWindow
    /\ sres[r].connected_mac = sloc[r].follows.device
====
